---- MODULE Spec2Model ----
(***************************************************************************)
(* Mochila (src/lib/mochila.js): an in-memory store of named collections   *)
(* of records, each collection kept sorted by `id`.                        *)
(*                                                                         *)
(* JavaScript values are modelled as records [t, n, s]:                    *)
(*   undefined, null, numbers (n), strings (s, a sequence of letter codes  *)
(*   a=1, b=2, ...), and references (n = address of an object on `heap`).  *)
(* Objects and arrays live on `heap`, so that object identity, aliasing    *)
(* and deep copies are observable.  After every operation the heap is      *)
(* garbage-collected and renumbered in a canonical order (Commit).         *)
(***************************************************************************)
EXTENDS Integers, Sequences, FiniteSets, TLC

VARIABLES store, factories, heap, payload, held, lastOp

vars == <<store, factories, heap, payload, held, lastOp>>

(***************************************************************************)
(* Bounds of the model.                                                    *)
(***************************************************************************)
MaxId == 3        \* numeric ids range over 1..MaxId
MaxPayload == 2   \* longest payload / removal list
MaxLen == 4       \* longest sequence handed to the search helpers directly

Names == {"a", "b"}
Keys == {"id", "title", "obj", "a"}
KeySeq == <<"id", "title", "obj", "a">>

(***************************************************************************)
(* Values.                                                                 *)
(***************************************************************************)
Undef == [t |-> "undefined", n |-> 0, s |-> <<>>]
Absent == [t |-> "absent", n |-> 0, s |-> <<>>]   \* "no own property"
Null == [t |-> "null", n |-> 0, s |-> <<>>]
Num(k) == [t |-> "number", n |-> k, s |-> <<>>]
Str(cs) == [t |-> "string", n |-> 0, s |-> cs]
Ref(a) == [t |-> "ref", n |-> a, s |-> <<>>]
Bool(b) == [t |-> "boolean", n |-> IF b THEN 1 ELSE 0, s |-> <<>>]

\* the characters of the strings: a string is the sequence of the positions
\* of its characters in Alphabet (the letters come first, in order)
Alphabet ==
  <<"a", "b", "c", "d", "e", "f", "g", "h", "i", "j", "k", "l", "m",
    "n", "o", "p", "q", "r", "s", "t", "u", "v", "w", "x", "y", "z",
    "0", "1", "2", "3", "4", "5", "6", "7", "8", "9",
    "[", "]", "{", "}", "\"", ":", ",">>
Ch(c) == CHOOSE i \in 1..Len(Alphabet) : Alphabet[i] = c
Chars(cs) == [i \in 1..Len(cs) |-> Ch(cs[i])]

\* letter codes of the key names, for arguments that name a key
KeyName(k) ==
  CASE k = "id" -> Str(<<9, 4>>)
    [] k = "title" -> Str(<<20, 9, 20, 12, 5>>)
    [] k = "obj" -> Str(<<15, 2, 10>>)
    [] k = "a" -> Str(<<1>>)

NewObject(proto) ==
  [kind |-> "object", proto |-> proto, props |-> [k \in Keys |-> Absent], elems |-> <<>>]

NewArray ==
  [kind |-> "array", proto |-> "Array", props |-> [k \in Keys |-> Absent], elems |-> <<>>]

\* typeof v
TypeOf(v) ==
  CASE v.t = "undefined" -> "undefined"
    [] v.t = "null" -> "object"
    [] v.t = "ref" -> "object"
    [] v.t = "number" -> "number"
    [] v.t = "string" -> "string"
    [] v.t = "boolean" -> "boolean"

\* Array.isArray(v)
IsArray(h, v) == v.t = "ref" /\ h[v.n].kind = "array"

\* the outcome of a property read that throws a TypeError
TypeError == [t |-> "TypeError", n |-> 0, s |-> <<>>]

\* v[k] for a key name k (own properties only; records have no inherited
\* data).  Reading a property of null or undefined throws a TypeError; an
\* array, a number, a string or a boolean has none of the keys.
Get(h, v, k) ==
  IF v.t \in {"null", "undefined", "absent"} THEN TypeError
  ELSE IF v.t = "ref" /\ h[v.n].kind = "object" /\ h[v.n].props[k] # Absent
  THEN h[v.n].props[k]
  ELSE Undef

\* the UTF-16 code unit of the character at position c of Alphabet
CodeUnit(c) ==
  IF c <= 26 THEN 96 + c
  ELSE IF c <= 36 THEN 21 + c
  ELSE CASE c = 37 -> 91 [] c = 38 -> 93 [] c = 39 -> 123 [] c = 40 -> 125
         [] c = 41 -> 34 [] c = 42 -> 58 [] c = 43 -> 44

CodeUnits(cs) == [i \in 1..Len(cs) |-> CodeUnit(cs[i])]

\* lexicographic order of two sequences of code units
RECURSIVE UnitsLess(_, _)
UnitsLess(x, y) ==
  IF y = <<>> THEN FALSE
  ELSE IF x = <<>> THEN TRUE
  ELSE IF Head(x) < Head(y) THEN TRUE
  ELSE IF Head(x) > Head(y) THEN FALSE
  ELSE UnitsLess(Tail(x), Tail(y))

\* x < y for two strings: lexicographic order by code unit
StrLess(x, y) == UnitsLess(CodeUnits(x), CodeUnits(y))

\* the decimal digits of a natural number, as code units
RECURSIVE DigitUnits(_)
DigitUnits(n) ==
  IF n < 10 THEN <<48 + n>> ELSE DigitUnits(n \div 10) \o <<48 + (n % 10)>>

\* "[object Object]", the string of every object that is not an array
ObjectUnits == <<91, 111, 98, 106, 101, 99, 116, 32, 79, 98, 106, 101, 99, 116, 93>>

\* the string of an object (Array.prototype.join for an array: null and
\* undefined elements give the empty string) and of an element of an array
RECURSIVE ElemUnits(_, _), JoinUnits(_, _, _)
ElemUnits(h, v) ==
  CASE v.t = "string" -> CodeUnits(v.s)
    [] v.t = "number" -> IF v.n < 0 THEN <<45>> \o DigitUnits(-v.n) ELSE DigitUnits(v.n)
    [] v.t = "boolean" -> IF v.n = 1 THEN <<116, 114, 117, 101>>
                          ELSE <<102, 97, 108, 115, 101>>
    [] v.t = "ref" -> IF h[v.n].kind = "array" THEN JoinUnits(h, h[v.n].elems, 1)
                      ELSE ObjectUnits
    [] OTHER -> <<>>

JoinUnits(h, elems, i) ==
  IF i > Len(elems) THEN <<>>
  ELSE (IF i > 1 THEN <<44>> ELSE <<>>) \o ElemUnits(h, elems[i]) \o JoinUnits(h, elems, i + 1)

\* ToPrimitive: an object becomes its string, a string its code units `u`
ToPrimitive(h, v) ==
  IF v.t = "ref" \/ v.t = "string" THEN [t |-> "string", n |-> 0, u |-> ElemUnits(h, v)]
  ELSE [t |-> v.t, n |-> v.n, u |-> <<>>]

\* the value of a digit in a radix up to 16, -1 for any other character
DigitValue(c) ==
  IF c >= 48 /\ c <= 57 THEN c - 48
  ELSE IF c >= 97 /\ c <= 102 THEN c - 87
  ELSE IF c >= 65 /\ c <= 70 THEN c - 55
  ELSE -1

\* the number written by the digits u in the radix, -1 when u is no numeral
RECURSIVE RadixValue(_, _, _)
RadixValue(u, radix, acc) ==
  IF u = <<>> THEN acc
  ELSE IF DigitValue(Head(u)) < 0 \/ DigitValue(Head(u)) >= radix THEN -1
  ELSE RadixValue(Tail(u), radix, acc * radix + DigitValue(Head(u)))

RECURSIVE Pow10(_)
Pow10(k) == IF k = 0 THEN 1 ELSE 10 * Pow10(k - 1)

\* a numeral without its sign (+ or -), and whether the sign was a minus
Unsigned(u) == IF u # <<>> /\ Head(u) \in {43, 45} THEN Tail(u) ELSE u
Negative(u) == u # <<>> /\ Head(u) = 45

\* the number m * 10^x, or m / 10^x when the exponent is negative (down);
\* NaN when the mantissa m or the exponent x is none.  A number is n / 10^d.
Scaled(m, x, down) ==
  IF m < 0 \/ x < 0 THEN [nan |-> TRUE, n |-> 0, d |-> 0]
  ELSE IF down THEN [nan |-> FALSE, n |-> m, d |-> x]
  ELSE [nan |-> FALSE, n |-> m * Pow10(x), d |-> 0]

\* the radix a numeral is written in: 0x.., 0o.., 0b.., or decimal
RadixOf(u) ==
  IF Len(u) > 2 /\ u[1] = 48 /\ u[2] \in {120, 88} THEN 16
  ELSE IF Len(u) > 2 /\ u[1] = 48 /\ u[2] \in {111, 79} THEN 8
  ELSE IF Len(u) > 2 /\ u[1] = 48 /\ u[2] \in {98, 66} THEN 2
  ELSE 10

\* the place of the exponent mark (e or E) of a decimal numeral, 0 for none
ExponentAt(u, radix) ==
  IF radix = 10 /\ \E i \in 1..Len(u) : u[i] \in {101, 69}
  THEN CHOOSE i \in 1..Len(u) : u[i] \in {101, 69} /\ \A j \in 1..(i - 1) : u[j] \notin {101, 69}
  ELSE 0

\* the digits of the unsigned numeral u and its exponent, which may carry a
\* sign ("0": no exponent); no digits before the mark or after it: no numeral
NumeralParts(u, radix, e) ==
  IF radix # 10 THEN <<SubSeq(u, 3, Len(u)), <<48>>>>
  ELSE IF u = <<>> \/ e = 1 \/ (e > 0 /\ Unsigned(SubSeq(u, e + 1, Len(u))) = <<>>)
  THEN <<<<0>>, <<48>>>>
  ELSE IF e = 0 THEN <<u, <<48>>>>
  ELSE <<SubSeq(u, 1, e - 1), SubSeq(u, e + 1, Len(u))>>

NumeralValue(parts, radix) ==
  Scaled(RadixValue(parts[1], radix, 0), RadixValue(Unsigned(parts[2]), 10, 0),
         Negative(parts[2]))

\* ToNumber of a string without white space or decimal point: the empty
\* string is 0; decimal digits, with a sign or not, with an exponent or not,
\* and the unsigned numerals 0x.., 0o.., 0b.. are numbers; anything else is
\* NaN
StringToNumber(u, radix) ==
  LET Signed(x) == IF Negative(u) THEN [x EXCEPT !.n = 0 - x.n] ELSE x
  IN IF u = <<>> THEN [nan |-> FALSE, n |-> 0, d |-> 0]
     ELSE IF radix # 10 THEN NumeralValue(NumeralParts(u, radix, 0), radix)
     ELSE Signed(NumeralValue(NumeralParts(Unsigned(u), 10, ExponentAt(Unsigned(u), 10)), 10))

\* ToNumber of a primitive: undefined is NaN, null is 0, false 0, true 1
ToNumber(p) ==
  IF p.t = "string" THEN StringToNumber(p.u, RadixOf(p.u))
  ELSE IF p.t \in {"number", "boolean"} THEN [nan |-> FALSE, n |-> p.n, d |-> 0]
  ELSE IF p.t = "null" THEN [nan |-> FALSE, n |-> 0, d |-> 0]
  ELSE [nan |-> TRUE, n |-> 0, d |-> 0]

\* the operands vs of an operator after ToPrimitive, and after ToNumber
Primitives(h, vs) == [i \in 1..Len(vs) |-> ToPrimitive(h, vs[i])]
Numbers(ps) == [i \in 1..Len(ps) |-> ToNumber(ps[i])]

\* ns[1] < ns[2] for two numbers: every comparison with NaN is false
NumLess(ns) ==
  /\ ~ns[1].nan
  /\ ~ns[2].nan
  /\ ns[1].n * Pow10(ns[2].d) < ns[2].n * Pow10(ns[1].d)

\* ps[1] < ps[2] for two primitives: two strings compare by code unit,
\* anything else as numbers
PrimLess(ps) ==
  IF ps[1].t = "string" /\ ps[2].t = "string" THEN UnitsLess(ps[1].u, ps[2].u)
  ELSE NumLess(Numbers(ps))

\* mutant: the shorter string is the lesser one
LessByLength(h, a, b) ==
  IF a.t = "number" /\ b.t = "number" THEN a.n < b.n
  ELSE IF a.t = "string" /\ b.t = "string"
  THEN Len(a.s) < Len(b.s) \/ (Len(a.s) = Len(b.s) /\ StrLess(a.s, b.s))
  ELSE FALSE

\* a < b in heap h: both operands are converted by ToPrimitive
Less(h, a, b) == PrimLess(Primitives(h, <<a, b>>))

\* ToPropertyKey: the property name a key value is converted to (ToString
\* of its primitive), as code units
PropertyKey(h, key) ==
  CASE key.t = "null" -> <<110, 117, 108, 108>>
    [] key.t \in {"undefined", "absent"} -> <<117, 110, 100, 101, 102, 105, 110, 101, 100>>
    [] OTHER -> ElemUnits(h, key)

\* the array index a property name writes, -1 when it writes none
ArrayIndex(u) ==
  IF u # <<>> /\ (Len(u) = 1 \/ u[1] # 48) THEN RadixValue(u, 10, 0) ELSE -1

\* "length", the own property of every string and array
LengthUnits == <<108, 101, 110, 103, 116, 104>>

\* v[key] where key is itself a JavaScript value, converted to a property
\* name: a record has its keys; a string has its characters and an array its
\* elements under their indices, and both have a length.  Properties
\* inherited from the built-in prototypes (functions) are not values of the
\* model and read as undefined.
GetByValue(h, v, key) ==
  LET Indexed(items, i, At(_)) ==
        IF i >= 0 /\ i < Len(items) THEN At(items[i + 1]) ELSE Undef
      Char(c) == Str(<<c>>)
      Elem(x) == IF x = Absent THEN Undef ELSE x
      Named(u) ==
        IF v.t \in {"null", "undefined", "absent"} THEN TypeError
        ELSE IF \E k \in Keys : CodeUnits(KeyName(k).s) = u
        THEN Get(h, v, CHOOSE k \in Keys : CodeUnits(KeyName(k).s) = u)
        ELSE IF v.t = "string"
        THEN IF u = LengthUnits THEN Num(Len(v.s)) ELSE Indexed(v.s, ArrayIndex(u), Char)
        ELSE IF IsArray(h, v)
        THEN IF u = LengthUnits THEN Num(Len(h[v.n].elems))
             ELSE Indexed(h[v.n].elems, ArrayIndex(u), Elem)
        ELSE Undef
  IN Named(PropertyKey(h, key))

(***************************************************************************)
(* _getInsertIndex(sortedArray, value, key)                                *)
(***************************************************************************)
\* mutant: the comparison of the loop is turned around
RECURSIVE InsertLoopFlipped(_, _, _, _, _, _)
InsertLoopFlipped(h, sortedArray, value, key, beg, end) ==
  IF beg <= end
  THEN LET mid == beg + ((end - beg) \div 2)
           checkedItem == Ref(sortedArray[mid + 1])
       IN IF Less(h, Get(h, checkedItem, key), value)
          THEN InsertLoopFlipped(h, sortedArray, value, key, beg, mid - 1)
          ELSE InsertLoopFlipped(h, sortedArray, value, key, mid + 1, end)
  ELSE end + 1

\* mutant: ties move leftward
RECURSIVE InsertLoopLeftmost(_, _, _, _, _, _)
InsertLoopLeftmost(h, sortedArray, value, key, beg, end) ==
  IF beg <= end
  THEN LET mid == beg + ((end - beg) \div 2)
           checkedItem == Ref(sortedArray[mid + 1])
       IN IF ~Less(h, Get(h, checkedItem, key), value)
          THEN InsertLoopLeftmost(h, sortedArray, value, key, beg, mid - 1)
          ELSE InsertLoopLeftmost(h, sortedArray, value, key, mid + 1, end)
  ELSE end + 1

RECURSIVE InsertLoop(_, _, _, _, _, _)
InsertLoop(h, sortedArray, value, key, beg, end) ==
  IF beg <= end
  THEN LET mid == beg + ((end - beg) \div 2)
           checkedItem == Ref(sortedArray[mid + 1])
       IN IF Less(h, value, Get(h, checkedItem, key))
          THEN InsertLoop(h, sortedArray, value, key, beg, mid - 1)
          ELSE InsertLoop(h, sortedArray, value, key, mid + 1, end)
  ELSE end + 1

\* mutant: the types are not compared
GetInsertIndexUntyped(h, sortedArray, value, key) ==
  IF value = Undef
  THEN [err |-> "UndefinedValue", idx |-> -1]
  ELSE IF Len(sortedArray) = 0
  THEN [err |-> "none", idx |-> 0]
  ELSE [err |-> "none",
        idx |-> InsertLoop(h, sortedArray, value, key, 0, Len(sortedArray) - 1)]

GetInsertIndex(h, sortedArray, value, key) ==
  IF value = Undef
  THEN [err |-> "UndefinedValue", idx |-> -1]
  ELSE IF Len(sortedArray) = 0
  THEN [err |-> "none", idx |-> 0]
  ELSE IF TypeOf(Get(h, Ref(sortedArray[1]), key)) # TypeOf(value)
  THEN [err |-> "TypeMismatch", idx |-> -1]
  ELSE [err |-> "none",
        idx |-> InsertLoop(h, sortedArray, value, key, 0, Len(sortedArray) - 1)]

(***************************************************************************)
(* _binarySearchIndex(sortedArray, value, key): `def` is FALSE when the    *)
(* function returns undefined, idx = -1 stands for {idx: undefined}.       *)
(***************************************************************************)
\* mutant: the loop stops one element early (beg < end)
RECURSIVE SearchLoopShort(_, _, _, _, _, _)
SearchLoopShort(h, sortedArray, value, key, beg, end) ==
  IF beg < end
  THEN LET mid == beg + ((end - beg) \div 2)
           checkedItem == Ref(sortedArray[mid + 1])
       IN IF Less(h, Get(h, checkedItem, key), value)
          THEN SearchLoopShort(h, sortedArray, value, key, mid + 1, end)
          ELSE IF Less(h, value, Get(h, checkedItem, key))
          THEN SearchLoopShort(h, sortedArray, value, key, beg, mid - 1)
          ELSE mid
  ELSE -1

\* mutant: the halves are searched the wrong way round
RECURSIVE SearchLoopSwapped(_, _, _, _, _, _)
SearchLoopSwapped(h, sortedArray, value, key, beg, end) ==
  IF beg <= end
  THEN LET mid == beg + ((end - beg) \div 2)
           checkedItem == Ref(sortedArray[mid + 1])
       IN IF Less(h, Get(h, checkedItem, key), value)
          THEN SearchLoopSwapped(h, sortedArray, value, key, beg, mid - 1)
          ELSE IF Less(h, value, Get(h, checkedItem, key))
          THEN SearchLoopSwapped(h, sortedArray, value, key, mid + 1, end)
          ELSE mid
  ELSE -1

RECURSIVE SearchLoop(_, _, _, _, _, _)
SearchLoop(h, sortedArray, value, key, beg, end) ==
  IF beg <= end
  THEN LET mid == beg + ((end - beg) \div 2)
           checkedItem == Ref(sortedArray[mid + 1])
       IN IF Less(h, Get(h, checkedItem, key), value)
          THEN SearchLoop(h, sortedArray, value, key, mid + 1, end)
          ELSE IF Less(h, value, Get(h, checkedItem, key))
          THEN SearchLoop(h, sortedArray, value, key, beg, mid - 1)
          ELSE mid
  ELSE -1

\* mutant: a key of another type is an error, as in _getInsertIndex
BinarySearchIndexStrict(h, sortedArray, value, key) ==
  IF value = Undef
  THEN [err |-> "UndefinedValue", def |-> FALSE, idx |-> -1]
  ELSE IF Len(sortedArray) = 0
  THEN [err |-> "none", def |-> FALSE, idx |-> -1]
  ELSE IF TypeOf(Get(h, Ref(sortedArray[1]), key)) # TypeOf(value)
  THEN [err |-> "TypeMismatch", def |-> FALSE, idx |-> -1]
  ELSE [err |-> "none", def |-> TRUE,
        idx |-> SearchLoop(h, sortedArray, value, key, 0, Len(sortedArray) - 1)]

BinarySearchIndex(h, sortedArray, value, key) ==
  IF value = Undef
  THEN [err |-> "UndefinedValue", def |-> FALSE, idx |-> -1]
  ELSE IF Len(sortedArray) = 0
          \/ TypeOf(Get(h, Ref(sortedArray[1]), key)) # TypeOf(value)
  THEN [err |-> "none", def |-> FALSE, idx |-> -1]
  ELSE [err |-> "none", def |-> TRUE,
        idx |-> SearchLoop(h, sortedArray, value, key, 0, Len(sortedArray) - 1)]

\* mutant: a successful search answers with the first element
BinarySearchFirst(h, sortedArray, value, key) ==
  LET ret == BinarySearchIndex(h, sortedArray, value, key)
  IN [err |-> ret.err,
      v |-> IF ret.def /\ ret.idx # -1 THEN Ref(sortedArray[1]) ELSE Undef]

\* _binarySearch: the element found, or undefined
BinarySearch(h, sortedArray, value, key) ==
  LET Found(ret) ==
        [err |-> ret.err,
         v |-> IF ret.def /\ ret.idx # -1 THEN Ref(sortedArray[ret.idx + 1]) ELSE Undef]
  IN Found(BinarySearchIndex(h, sortedArray, value, key))

(***************************************************************************)
(* _mergeObject(obj, ...objs) and its inner deepCopy(source).              *)
(* Operators that allocate return the new heap with the value.             *)
(***************************************************************************)
RECURSIVE deepCopy(_, _), copyElems(_, _, _, _), copyProps(_, _, _, _)

\* mutant: the copy is shallow
deepCopyShallow(h, source) == [h |-> h, v |-> source]

deepCopy(h, source) ==
  IF IsArray(h, source)
  THEN LET h1 == Append(h, NewArray)
       IN [h |-> copyElems(h1, source.n, Len(h1), 1), v |-> Ref(Len(h1))]
  ELSE IF TypeOf(source) = "object"
  THEN LET h1 == Append(h, NewObject("Object"))
       IN [h |-> IF source.t = "null" THEN h1 ELSE copyProps(h1, source.n, Len(h1), 1),
           v |-> Ref(Len(h1))]
  ELSE [h |-> h, v |-> source]

copyElems(h, src, dst, i) ==
  IF i > Len(h[src].elems) THEN h
  ELSE LET r == deepCopy(h, h[src].elems[i])
       IN copyElems([r.h EXCEPT ![dst].elems = Append(@, r.v)], src, dst, i + 1)

copyProps(h, src, dst, i) ==
  IF i > Len(KeySeq) THEN h
  ELSE LET prop == KeySeq[i]
       IN IF h[src].props[prop] = Absent
          THEN copyProps(h, src, dst, i + 1)
          ELSE LET r == deepCopy(h, h[src].props[prop])
               IN copyProps([r.h EXCEPT ![dst].props[prop] = r.v], src, dst, i + 1)

\* mutant: a keyed structure is merged into the keyed structure it meets
RECURSIVE mergePropsDeep(_, _, _, _)
mergePropsDeep(h, curr, obj, i) ==
  IF i > Len(KeySeq) THEN h
  ELSE LET prop == KeySeq[i]
       IN IF h[curr].props[prop] = Absent
          THEN mergePropsDeep(h, curr, obj, i + 1)
          ELSE IF /\ h[curr].props[prop].t = "ref" /\ h[obj].props[prop].t = "ref"
                  /\ h[h[curr].props[prop].n].kind = "object"
                  /\ h[h[obj].props[prop].n].kind = "object"
          THEN mergePropsDeep(mergePropsDeep(h, h[curr].props[prop].n,
                                             h[obj].props[prop].n, 1),
                              curr, obj, i + 1)
          ELSE LET r == deepCopy(h, h[curr].props[prop])
               IN mergePropsDeep([r.h EXCEPT ![obj].props[prop] = r.v], curr, obj, i + 1)

\* for (prop in curr) obj[prop] = deepCopy(curr[prop])
RECURSIVE mergeProps(_, _, _, _)
mergeProps(h, curr, obj, i) ==
  IF i > Len(KeySeq) THEN h
  ELSE LET prop == KeySeq[i]
       IN IF h[curr].props[prop] = Absent
          THEN mergeProps(h, curr, obj, i + 1)
          ELSE LET r == deepCopy(h, h[curr].props[prop])
               IN mergeProps([r.h EXCEPT ![obj].props[prop] = r.v], curr, obj, i + 1)

RECURSIVE mergeLoop(_, _, _, _)
mergeLoop(h, obj, objs, i) ==
  IF i > Len(objs) THEN h
  ELSE LET curr == objs[i]
       IN IF TypeOf(curr) # "object" \/ IsArray(h, curr)
          THEN mergeLoop(h, obj, objs, i + 1)
          ELSE IF curr.t = "null"      \* for (prop in null) has no iterations
          THEN mergeLoop(h, obj, objs, i + 1)
          ELSE mergeLoop(mergeProps(h, curr.n, obj.n, 1), obj, objs, i + 1)

\* obj is always a reference to a keyed structure or an array here
mergeObject(h, obj, objs) ==
  IF TypeOf(obj) # "object" \/ IsArray(h, obj) THEN h
  ELSE mergeLoop(h, obj, objs, 1)

(***************************************************************************)
(* Factories.  A factory argument is one of:                               *)
(*   "ShallowData"  a constructor function with a callable create, whose   *)
(*                  create(...args) copies the own properties of its       *)
(*                  arguments onto a new instance by reference (the        *)
(*                  factory of the unit tests);                            *)
(*   "noCreate"     a function without create;                             *)
(*   "createObject" an object (not a function) with a callable create;     *)
(*   "oops"         a string.                                              *)
(***************************************************************************)
FactoryArgs == {"ShallowData", "noCreate", "createObject", "oops"}

IsFunction(factory) == factory \in {"ShallowData", "noCreate"}
HasCreate(factory) == factory \in {"ShallowData", "createObject"}

\* this[prop] = obj[prop] for every own property of obj
RECURSIVE shallowProps(_, _, _, _)
shallowProps(h, obj, this, i) ==
  IF i > Len(KeySeq) THEN h
  ELSE LET prop == KeySeq[i]
       IN IF h[obj].props[prop] = Absent
          THEN shallowProps(h, obj, this, i + 1)
          ELSE shallowProps([h EXCEPT ![this].props[prop] = h[obj].props[prop]],
                            obj, this, i + 1)

RECURSIVE shallowArgs(_, _, _, _)
shallowArgs(h, args, this, i) ==
  IF i > Len(args) THEN h
  ELSE IF args[i].t = "ref" /\ h[args[i].n].kind = "object"
  THEN shallowArgs(shallowProps(h, args[i].n, this, 1), args, this, i + 1)
  ELSE shallowArgs(h, args, this, i + 1)

\* ShallowData.create(...args).  `calls` is what a spy on create records:
\* the arguments of every call made, here of this one.
FactoryCreate(h, factory, args) ==
  LET h1 == Append(h, NewObject(factory))
  IN [h |-> shallowArgs(h1, args, Len(h1), 1), v |-> Ref(Len(h1)), calls |-> <<args>>]

\* mutant: no object counts as an instance
InstanceOfNever(h, obj, factoryType) == FALSE

\* obj instanceof factoryType
InstanceOf(h, obj, factoryType) == obj.t = "ref" /\ h[obj.n].proto = factoryType

(***************************************************************************)
(* createModelOfType(name, ...objs)                                         *)
(***************************************************************************)
\* mutant: create is called a second time and the second model is returned
createModelOfTypeTwice(h, fac, name, objs) ==
  LET factory == fac[name]
  IN IF factory = "none"
     THEN LET h1 == Append(h, NewObject("Object"))
              model == Ref(Len(h1))
          IN [h |-> mergeObject(h1, model, objs), v |-> model, calls |-> <<>>]
     ELSE LET first == FactoryCreate(h, factory, objs)
              second == FactoryCreate(first.h, factory, objs)
          IN [h |-> second.h, v |-> second.v, calls |-> first.calls \o second.calls]

\* `calls`: the calls of the factory's create made on the way
createModelOfType(h, fac, name, objs) ==
  LET factory == fac[name]
  IN IF factory = "none"
     THEN LET h1 == Append(h, NewObject("Object"))
              model == Ref(Len(h1))
          IN [h |-> mergeObject(h1, model, objs), v |-> model, calls |-> <<>>]
     ELSE FactoryCreate(h, factory, objs)

(***************************************************************************)
(* _pushModels(collection, payload), payload already a sequence.           *)
(* `done` counts the records applied before the call returned or threw.    *)
(***************************************************************************)
\* mutant: the new element goes to the end
InsertAtEnd(seq, idx, x) == Append(seq, x)

InsertAt(seq, idx, x) == SubSeq(seq, 1, idx) \o <<x>> \o SubSeq(seq, idx + 1, Len(seq))
RemoveAt(seq, idx) == SubSeq(seq, 1, idx) \o SubSeq(seq, idx + 2, Len(seq))

\* mutant: the incoming record takes the place of the found one
pushFoundReplace(h, collection, foundItem, item) ==
  [h |-> h,
   collection |-> [i \in 1..Len(collection) |->
                     IF collection[i] = foundItem.n THEN item.n ELSE collection[i]]]

\* the body of payload.forEach for one item: merge into the found record
pushFound(h, collection, foundItem, item) ==
  [h |-> mergeObject(h, foundItem, <<item>>), collection |-> collection]

RECURSIVE pushLoop(_, _, _, _)
pushLoop(h, collection, items, i) ==
  IF i > Len(items) THEN [h |-> h, collection |-> collection, err |-> "none", done |-> i - 1]
  ELSE LET item == items[i]
           Thrown(err) == [h |-> h, collection |-> collection, err |-> err, done |-> i - 1]
           Merged(r) == pushLoop(r.h, r.collection, items, i + 1)
           Inserted(ins) ==
             IF ins.err # "none" THEN Thrown(ins.err)
             ELSE pushLoop(h, InsertAt(collection, ins.idx, item.n), items, i + 1)
           Searched(id, found) ==
             IF found.err # "none" THEN Thrown(found.err)
             ELSE IF found.v # Undef THEN Merged(pushFound(h, collection, found.v, item))
             ELSE Inserted(GetInsertIndex(h, collection, id, "id"))
           Read(id) ==
             IF id = TypeError THEN Thrown("TypeError")
             ELSE Searched(id, BinarySearch(h, collection, id, "id"))
       IN Read(Get(h, item, "id"))

\* mutant: a failing call leaves the collection as it found it
pushModelsAtomic(h, collection, items) ==
  LET r == pushLoop(h, collection, items, 1)
  IN IF r.err = "none" THEN r
     ELSE [h |-> h, collection |-> collection, err |-> r.err, done |-> r.done]

\* mutant: the items of one call are taken last to first
pushModelsBackwards(h, collection, items) ==
  pushLoop(h, collection, [i \in 1..Len(items) |-> items[Len(items) + 1 - i]], 1)

pushModels(h, collection, items) == pushLoop(h, collection, items, 1)

(***************************************************************************)
(* load(name, payload)                                                     *)
(***************************************************************************)
\* payload.map(obj => instance ? obj : this.createModelOfType(name, obj))
RECURSIVE mapModels(_, _, _, _, _, _)
mapModels(h, fac, name, elems, i, acc) ==
  IF i > Len(elems) THEN [h |-> h, items |-> acc]
  ELSE IF fac[name] # "none" /\ InstanceOf(h, elems[i], fac[name])
  THEN mapModels(h, fac, name, elems, i + 1, Append(acc, elems[i]))
  ELSE LET r == createModelOfType(h, fac, name, <<elems[i]>>)
       IN mapModels(r.h, fac, name, elems, i + 1, Append(acc, r.v))

(***************************************************************************)
(* JSON.parse(text) for the texts over Alphabet, which has no white space, *)
(* sign, decimal point or backslash: the literals null, true and false;    *)
(* numbers (0, or digits without a leading zero, with an exponent e and    *)
(* digits or without); strings (any characters between two quotes); arrays *)
(* and objects.  A member whose name is not one of Keys is parsed and not   *)
(* kept, records having the properties of Keys only.  ok = FALSE: a        *)
(* SyntaxError.                                                            *)
(***************************************************************************)
ParseFail(h) == [ok |-> FALSE, h |-> h, v |-> Undef, rest |-> <<>>]
Parsed(h, v, rest) == [ok |-> TRUE, h |-> h, v |-> v, rest |-> rest]

StartsWith(text, word) ==
  Len(text) >= Len(word) /\ SubSeq(text, 1, Len(word)) = word
Drop(text, k) == SubSeq(text, k + 1, Len(text))

IsDigit(c) == c >= Ch("0") /\ c <= Ch("9")

\* the digits after the first one of a number
RECURSIVE parseDigits(_, _)
parseDigits(text, acc) ==
  IF text # <<>> /\ IsDigit(Head(text))
  THEN parseDigits(Tail(text), 10 * acc + (Head(text) - Ch("0")))
  ELSE [n |-> acc, rest |-> text]

\* the exponent of a number (e and digits), if there is one
parseExponent(h, n, rest) ==
  IF rest # <<>> /\ Head(rest) = Ch("e")
  THEN IF Len(rest) >= 2 /\ IsDigit(rest[2])
       THEN LET x == parseDigits(Drop(rest, 2), rest[2] - Ch("0"))
            IN Parsed(h, Num(n * Pow10(x.n)), x.rest)
       ELSE ParseFail(h)
  ELSE Parsed(h, Num(n), rest)

\* the characters of a string up to its closing quote
RECURSIVE parseString(_, _)
parseString(text, acc) ==
  IF text = <<>> THEN [ok |-> FALSE, s |-> acc, rest |-> <<>>]
  ELSE IF Head(text) = Ch("\"") THEN [ok |-> TRUE, s |-> acc, rest |-> Tail(text)]
  ELSE parseString(Tail(text), Append(acc, Head(text)))

RECURSIVE parseValue(_, _), parseElems(_, _, _), elemsNext(_, _, _),
          parseMembers(_, _, _), membersKey(_, _, _), membersNext(_, _, _, _)

parseValue(h, text) ==
  IF text = <<>> THEN ParseFail(h)
  ELSE IF StartsWith(text, Chars(<<"n", "u", "l", "l">>)) THEN Parsed(h, Null, Drop(text, 4))
  ELSE IF StartsWith(text, Chars(<<"t", "r", "u", "e">>))
  THEN Parsed(h, Bool(TRUE), Drop(text, 4))
  ELSE IF StartsWith(text, Chars(<<"f", "a", "l", "s", "e">>))
  THEN Parsed(h, Bool(FALSE), Drop(text, 5))
  ELSE IF Head(text) = Ch("0") THEN parseExponent(h, 0, Tail(text))
  ELSE IF IsDigit(Head(text))
  THEN LET d == parseDigits(Tail(text), Head(text) - Ch("0"))
       IN parseExponent(h, d.n, d.rest)
  ELSE IF Head(text) = Ch("\"")
  THEN LET l == parseString(Tail(text), <<>>)
       IN IF l.ok THEN Parsed(h, Str(l.s), l.rest) ELSE ParseFail(h)
  ELSE IF Head(text) = Ch("[")
  THEN IF Len(text) >= 2 /\ text[2] = Ch("]")
       THEN Parsed(Append(h, NewArray), Ref(Len(h) + 1), Drop(text, 2))
       ELSE parseElems(Append(h, NewArray), Tail(text), Len(h) + 1)
  ELSE IF Head(text) = Ch("{")
  THEN IF Len(text) >= 2 /\ text[2] = Ch("}")
       THEN Parsed(Append(h, NewObject("Object")), Ref(Len(h) + 1), Drop(text, 2))
       ELSE parseMembers(Append(h, NewObject("Object")), Tail(text), Len(h) + 1)
  ELSE ParseFail(h)

\* value (',' value)* ']' into the array at address arr
parseElems(h, text, arr) == elemsNext(parseValue(h, text), h, arr)

\* e: the element just parsed
elemsNext(e, h, arr) ==
  IF ~e.ok \/ e.rest = <<>> THEN ParseFail(h)
  ELSE IF Head(e.rest) = Ch("]")
  THEN Parsed([e.h EXCEPT ![arr].elems = Append(@, e.v)], Ref(arr), Tail(e.rest))
  ELSE IF Head(e.rest) = Ch(",")
  THEN parseElems([e.h EXCEPT ![arr].elems = Append(@, e.v)], Tail(e.rest), arr)
  ELSE ParseFail(h)

\* string ':' value (',' string ':' value)* '}' into the object at address obj
parseMembers(h, text, obj) ==
  IF text = <<>> \/ Head(text) # Ch("\"") THEN ParseFail(h)
  ELSE membersKey(parseString(Tail(text), <<>>), h, obj)

\* l: the property name just parsed
membersKey(l, h, obj) ==
  IF ~l.ok \/ l.rest = <<>> \/ Head(l.rest) # Ch(":") THEN ParseFail(h)
  ELSE membersNext(parseValue(h, Tail(l.rest)), l.s, h, obj)

\* the heap with property `name` of obj set (names outside Keys are not kept)
SetMember(h, obj, name, v) ==
  IF \E k \in Keys : KeyName(k) = Str(name)
  THEN [h EXCEPT ![obj].props[CHOOSE k \in Keys : KeyName(k) = Str(name)] = v]
  ELSE h

\* e: the value just parsed for property `name`
membersNext(e, name, h, obj) ==
  IF ~e.ok \/ e.rest = <<>> THEN ParseFail(h)
  ELSE IF Head(e.rest) = Ch("}")
  THEN Parsed(SetMember(e.h, obj, name, e.v), Ref(obj), Tail(e.rest))
  ELSE IF Head(e.rest) = Ch(",")
  THEN parseMembers(SetMember(e.h, obj, name, e.v), Tail(e.rest), obj)
  ELSE ParseFail(h)

\* the whole text must be one value
WholeText(r, h) == IF r.ok /\ r.rest = <<>> THEN r ELSE ParseFail(h)

ParseJSON(h, text) == WholeText(parseValue(h, text), h)

\* mutant: the error of JSON.parse is caught and not thrown again, the load
\* returns
loadParsedSwallowing(p, st, fac, name) ==
  IF ~p.ok
  THEN [h |-> p.h, store |-> st, err |-> "none", done |-> 0]
  ELSE IF TypeOf(p.v) # "object"
  THEN [h |-> p.h, store |-> st, err |-> "InvalidPayload", done |-> 0]
  ELSE LET elems == IF IsArray(p.h, p.v) THEN p.h[p.v.n].elems ELSE <<p.v>>
       IN IF Len(elems) = 0
          THEN [h |-> p.h, store |-> st, err |-> "none", done |-> 0]
          ELSE LET Pushed(r) ==
                     [h |-> r.h,
                      store |-> [st EXCEPT ![name].models = r.collection],
                      err |-> r.err, done |-> r.done]
                   Mapped(m) == Pushed(pushModels(m.h, st[name].models, m.items))
               IN Mapped(mapModels(p.h, fac, name, elems, 1, <<>>))

\* load with the payload parsed (p.ok = FALSE: JSON.parse threw)
loadParsed(p, st, fac, name) ==
  IF ~p.ok
  THEN [h |-> p.h, store |-> st, err |-> "MalformedJSON", done |-> 0]
  ELSE IF TypeOf(p.v) # "object"
  THEN [h |-> p.h, store |-> st, err |-> "InvalidPayload", done |-> 0]
  ELSE LET elems == IF IsArray(p.h, p.v) THEN p.h[p.v.n].elems ELSE <<p.v>>
       IN IF Len(elems) = 0
          THEN [h |-> p.h, store |-> st, err |-> "none", done |-> 0]
          ELSE LET Pushed(r) ==
                     [h |-> r.h,
                      store |-> [st EXCEPT ![name].models = r.collection],
                      err |-> r.err, done |-> r.done]
                   Mapped(m) == Pushed(pushModels(m.h, st[name].models, m.items))
               IN Mapped(mapModels(p.h, fac, name, elems, 1, <<>>))

\* mutant: the factory of collection "a" serves every collection
loadOneFactory(h, st, fac, name, pl) ==
  IF ~st[name].defined
  THEN [h |-> h, store |-> st, err |-> "UnknownCollection", done |-> 0]
  ELSE loadParsed(IF TypeOf(pl) = "string" THEN ParseJSON(h, pl.s)
                  ELSE Parsed(h, pl, <<>>),
                  st, [n \in Names |-> fac["a"]], name)

\* mutant: a string payload is not parsed
loadUnparsed(h, st, fac, name, pl) ==
  IF ~st[name].defined
  THEN [h |-> h, store |-> st, err |-> "UnknownCollection", done |-> 0]
  ELSE loadParsed(Parsed(h, pl, <<>>), st, fac, name)

load(h, st, fac, name, pl) ==
  IF ~st[name].defined
  THEN [h |-> h, store |-> st, err |-> "UnknownCollection", done |-> 0]
  ELSE loadParsed(IF TypeOf(pl) = "string" THEN ParseJSON(h, pl.s)
                  ELSE Parsed(h, pl, <<>>),
                  st, fac, name)

(***************************************************************************)
(* all(name, key, val) and find(name, key, val)                            *)
(***************************************************************************)
\* mutant: the filter stops at the first match
RECURSIVE FilterFirst(_, _, _, _)
FilterFirst(h, collection, key, val) ==
  IF collection = <<>> THEN <<>>
  ELSE IF GetByValue(h, Ref(Head(collection)), key) = val
  THEN <<Head(collection)>>
  ELSE FilterFirst(h, Tail(collection), key, val)

\* mutant: the matches come out last first
RECURSIVE FilterReversed(_, _, _, _)
FilterReversed(h, collection, key, val) ==
  IF collection = <<>> THEN <<>>
  ELSE IF GetByValue(h, Ref(Head(collection)), key) = val
  THEN FilterReversed(h, Tail(collection), key, val) \o <<Head(collection)>>
  ELSE FilterReversed(h, Tail(collection), key, val)

RECURSIVE Filter(_, _, _, _)
Filter(h, collection, key, val) ==
  IF collection = <<>> THEN <<>>
  ELSE IF GetByValue(h, Ref(Head(collection)), key) = val
  THEN <<Head(collection)>> \o Filter(h, Tail(collection), key, val)
  ELSE Filter(h, Tail(collection), key, val)

\* `own` tells whether the array returned is the collection's own array
\* (never: slice(), an array literal and filter() all make a new array).
\* mutant: a lone value is not looked up by id but filtered like a key
allFilterOnly(h, st, name, key, val) ==
  IF ~st[name].defined THEN [err |-> "UnknownCollection", ret |-> <<>>, own |-> FALSE]
  ELSE LET collection == st[name].models
       IN IF val = Undef /\ key = Undef
          THEN [err |-> "none", ret |-> collection, own |-> FALSE]
          ELSE [err |-> "none", ret |-> Filter(h, collection, key, val), own |-> FALSE]

\* mutant: without key and value the collection itself is handed out
allShared(h, st, name, key, val) ==
  IF ~st[name].defined THEN [err |-> "UnknownCollection", ret |-> <<>>, own |-> FALSE]
  ELSE LET collection == st[name].models
       IN IF val = Undef /\ key = Undef
          THEN [err |-> "none", ret |-> collection, own |-> TRUE]
          ELSE IF val = Undef
          THEN LET ret == BinarySearch(h, collection, key, "id")
               IN [err |-> ret.err,
                   ret |-> IF ret.v # Undef THEN <<ret.v.n>> ELSE <<>>,
                   own |-> FALSE]
          ELSE [err |-> "none", ret |-> Filter(h, collection, key, val), own |-> FALSE]

all(h, st, name, key, val) ==
  IF ~st[name].defined THEN [err |-> "UnknownCollection", ret |-> <<>>, own |-> FALSE]
  ELSE LET collection == st[name].models
       IN IF val = Undef
          THEN IF key = Undef
               THEN [err |-> "none", ret |-> collection, own |-> FALSE]
               ELSE LET ret == BinarySearch(h, collection, key, "id")
                    IN [err |-> ret.err,
                        ret |-> IF ret.v # Undef THEN <<ret.v.n>> ELSE <<>>,
                        own |-> FALSE]
          ELSE [err |-> "none", ret |-> Filter(h, collection, key, val), own |-> FALSE]

\* ret holds the record found, or is empty for undefined
find(h, st, name, key, val) ==
  IF ~st[name].defined THEN [err |-> "UnknownCollection", ret |-> <<>>]
  ELSE LET collection == st[name].models
       IN IF val = Undef
          THEN LET ret == BinarySearch(h, collection, key, "id")
               IN [err |-> ret.err,
                   ret |-> IF ret.v # Undef THEN <<ret.v.n>> ELSE <<>>]
          ELSE LET m == Filter(h, collection, key, val)
               IN [err |-> "none", ret |-> IF m = <<>> THEN <<>> ELSE <<Head(m)>>]

(***************************************************************************)
(* sortBy(name, key): key is a key name, "" for a call without key.  The   *)
(* name is always a string here.                                           *)
(* Array.prototype.sort is the engine's (V8's array-sort.tq, the sort of   *)
(* CPython's lists).  It cuts the array into runs: a run is the ascending  *)
(* or strictly descending stretch found in place (the latter turned        *)
(* around), made at least minRun long by a binary insertion sort; minRun   *)
(* is the length of the array when that is below 64, so a shorter array is *)
(* one run.  The runs are kept on a stack and merged two by two, the merge *)
(* galloping when one run wins minGallop times in a row.  The comparator   *)
(* is asked as the engine asks it and NaN is read as 0.  With a comparator *)
(* that is a consistent order this is the stable sort; with one that is    *)
(* not (a key missing, or keys of several types) it is this engine's       *)
(* answer.  Indices and offsets count from 0 as in the engine, element i   *)
(* of an array being array[i + 1].  A loop of the engine is an operator    *)
(* for one pass of it and an operator that makes the passes, the first     *)
(* half of them and then the rest, which keeps the evaluation shallow on   *)
(* long arrays.                                                            *)
(***************************************************************************)
\* the sign of a[key] - b[key] for the numbers ns of the two keys, 0 when
\* the difference is NaN
Difference(ns) ==
  LET Sign(x) == IF x < 0 THEN -1 ELSE IF x > 0 THEN 1 ELSE 0
  IN IF ns[1].nan \/ ns[2].nan THEN 0
     ELSE Sign(ns[1].n * Pow10(ns[2].d) - ns[2].n * Pow10(ns[1].d))

\* mutant: the comparator is turned around
CompareReversed(h, a, b, key, numeric) ==
  LET Ordered(akey, bkey) ==
        IF numeric THEN Difference(Numbers(Primitives(h, <<bkey, akey>>)))
        ELSE IF Less(h, akey, bkey) THEN 1
        ELSE IF Less(h, bkey, akey) THEN -1
        ELSE 0
  IN Ordered(Get(h, Ref(a), key), Get(h, Ref(b), key))

\* the sign of what the comparator of sortBy answers for the records a, b:
\* a[key] - b[key] when numeric, else -1, 1 or 0 by akey < bkey, bkey < akey
Compare(h, a, b, key, numeric) ==
  LET Ordered(akey, bkey) ==
        IF numeric THEN Difference(Numbers(Primitives(h, <<akey, bkey>>)))
        ELSE IF Less(h, akey, bkey) THEN -1
        ELSE IF Less(h, bkey, akey) THEN 1
        ELSE 0
  IN Ordered(Get(h, Ref(a), key), Get(h, Ref(b), key))

\* sortState.Compare(a, b); c is the comparator: what it answers for each
\* two records
Order(c, a, b) == c[a, b]

kMinGallopWins == 7  \* wins in a row that start and keep up galloping
kMinRunBound == 64   \* arrays shorter than this are one run

\* Copy(source, from, target, to, count): target with count elements of
\* source, from index `from` on, put at index `to` on
CopyRange(source, from, target, to, count) ==
  SubSeq(target, 1, to) \o SubSeq(source, from + 1, from + count)
    \o SubSeq(target, to + count + 1, Len(target))

\* ReverseRange(array, from, to): elements from..to-1 turned around
ReverseRange(array, from, to) ==
  SubSeq(array, 1, from) \o [i \in 1..(to - from) |-> array[to + 1 - i]]
    \o SubSeq(array, to + 1, Len(array))

RECURSIVE MinRunLoop(_, _)
MinRunLoop(n, r) ==
  IF n >= kMinRunBound THEN MinRunLoop(n \div 2, IF n % 2 = 1 THEN 1 ELSE r)
  ELSE n + r

ComputeMinRunLength(n) == MinRunLoop(n, 0)

\* the index the run ends before: the first index from idx on whose element
\* breaks the run, high when none does
CountRun(c, array, descending, idx, high) ==
  LET Ended(order) == IF descending THEN order >= 0 ELSE order < 0
      Ends(i) == Ended(Order(c, array[i + 1], array[i]))
      ends == {i \in idx..(high - 1) : Ends(i)}
  IN IF ends = {} THEN high
     ELSE CHOOSE i \in ends : \A other \in ends : i <= other

\* the array with the run that begins at lowArg made ascending, and the
\* length of that run
CountAndMakeRun(c, array, lowArg, high) ==
  LET low == lowArg + 1
      Made(descending, run) ==
        [array |-> IF descending THEN ReverseRange(array, lowArg, lowArg + run)
                   ELSE array,
         run |-> run]
      Counted(descending) ==
        Made(descending, CountRun(c, array, descending, low + 1, high) - lowArg)
  IN IF low = high THEN [array |-> array, run |-> 1]
     ELSE Counted(Order(c, array[low + 1], array[low]) < 0)

\* the index among left..right-1 the pivot is put at
RECURSIVE InsertionPlace(_, _, _, _, _)
InsertionPlace(c, array, pivot, left, right) ==
  LET Narrowed(mid, before) ==
        InsertionPlace(c, array, pivot, IF before THEN left ELSE mid + 1,
                       IF before THEN mid ELSE right)
      Halved(mid) == Narrowed(mid, Order(c, pivot, array[mid + 1]) < 0)
  IN IF left < right THEN Halved(left + ((right - left) \div 2)) ELSE left

\* a pass of the loop of BinaryInsertionSort: elements low..start-1 are
\* sorted, the element at start is put among them
InsertionPass(c, s, low) ==
  LET Placed(left) ==
        [array |-> SubSeq(s.array, 1, left) \o <<s.array[s.start + 1]>>
                     \o SubSeq(s.array, left + 1, s.start)
                     \o SubSeq(s.array, s.start + 2, Len(s.array)),
         start |-> s.start + 1]
  IN Placed(InsertionPlace(c, s.array, s.array[s.start + 1], low, s.start))

\* up to n passes of the loop
RECURSIVE InsertionPasses(_, _, _, _, _)
InsertionPasses(c, s, low, high, n) ==
  IF s.start >= high \/ n = 0 THEN s
  ELSE IF n = 1 THEN InsertionPass(c, s, low)
  ELSE InsertionPasses(c, InsertionPasses(c, s, low, high, n \div 2), low, high,
                       n - (n \div 2))

\* elements low..startArg-1 are sorted; those from startArg to high-1 are
\* placed among them one by one
BinaryInsertionSort(c, array, low, startArg, high) ==
  InsertionPasses(c, [array |-> array,
                      start |-> IF low = startArg THEN startArg + 1 ELSE startArg],
                  low, high, high - low).array

\* what the comparator answers in a gallop for the element at index `at`:
\* for (key, element) in GallopRight, for (element, key) in GallopLeft
GallopOrder(c, array, key, at, rightmost) ==
  Order(c, IF rightmost THEN key ELSE array[at + 1],
           IF rightmost THEN array[at + 1] ELSE key)

\* the offsets 1, 3, 7, ... from index `from`, in steps of `step` (1 or -1),
\* for as long as the answer stays on the side (`below`) of the first one
RECURSIVE GallopSpan(_, _, _, _, _, _, _, _, _, _)
GallopSpan(c, array, key, rightmost, from, step, below, lastOfs, offset, maxOfs) ==
  IF offset < maxOfs
     /\ ((GallopOrder(c, array, key, from + step * offset, rightmost) < 0) = below)
  THEN GallopSpan(c, array, key, rightmost, from, step, below,
                  offset, 2 * offset + 1, maxOfs)
  ELSE [lastOfs |-> lastOfs, offset |-> IF offset > maxOfs THEN maxOfs ELSE offset]

\* the binary search between the offsets the gallop ended with
RECURSIVE GallopSearch(_, _, _, _, _, _, _)
GallopSearch(c, array, key, rightmost, base, lastOfs, offset) ==
  LET Narrowed(m, before) ==
        GallopSearch(c, array, key, rightmost, base,
                     IF before THEN lastOfs ELSE m + 1,
                     IF before THEN m ELSE offset)
      Halved(m) ==
        Narrowed(m, (GallopOrder(c, array, key, base + m, rightmost) < 0) = rightmost)
  IN IF lastOfs < offset THEN Halved(lastOfs + ((offset - lastOfs) \div 2)) ELSE offset

\* GallopLeft and GallopRight: the gallop goes right when the hint element
\* is below the key (GallopLeft) or not above it (GallopRight), else left
Gallop(c, array, key, base, length, hint, rightmost) ==
  LET Searched(g, goesRight) ==
        GallopSearch(c, array, key, rightmost, base,
                     IF goesRight THEN g.lastOfs + hint + 1 ELSE hint - g.offset + 1,
                     IF goesRight THEN g.offset + hint ELSE hint - g.lastOfs)
      Spanned(below, goesRight) ==
        Searched(GallopSpan(c, array, key, rightmost, base + hint,
                            IF goesRight THEN 1 ELSE -1, below, 0, 1,
                            IF goesRight THEN length - hint ELSE hint + 1),
                 goesRight)
      Begun(below) == Spanned(below, below # rightmost)
  IN Begun(GallopOrder(c, array, key, base + hint, rightmost) < 0)

\* the offset in array[base..base+length-1] before which key goes, left of
\* the elements equal to it
GallopLeft(c, array, key, base, length, hint) ==
  Gallop(c, array, key, base, length, hint, FALSE)

\* the same, right of the elements equal to it
GallopRight(c, array, key, base, length, hint) ==
  Gallop(c, array, key, base, length, hint, TRUE)

(***************************************************************************)
(* The state of a merge: a the work array, temp the copy of the shorter    *)
(* run, dest where the next element goes, ct the cursor in temp, cur the   *)
(* cursor in the other run, base the base of run A, lengthA and lengthB    *)
(* what is left of the runs, mg minGallop, wa and wb the wins in a row     *)
(* (nofWinsA, nofWinsB), galloping and firstIteration which loop the merge *)
(* is in, done whether it has ended.  MergeLow copies run A and fills from *)
(* the left, MergeHigh copies run B and fills from the right.              *)
(***************************************************************************)
MergeState(array, temp, dest, ct, cur, baseA, lengthA, lengthB, minGallop) ==
  [a |-> array, temp |-> temp, dest |-> dest, ct |-> ct, cur |-> cur,
   base |-> baseA, lengthA |-> lengthA, lengthB |-> lengthB, mg |-> minGallop,
   wa |-> 0, wb |-> 0, galloping |-> FALSE, firstIteration |-> FALSE,
   done |-> FALSE]

\* one run has won minGallop times in a row: ++minGallop, and on to the
\* galloping loop
StartGalloping(m) ==
  [m EXCEPT !.mg = @ + 1, !.galloping = TRUE, !.firstIteration = TRUE]

\* the galloping loop is left: ++minGallop, and back to the loop that takes
\* one element at a time
StopGalloping(m) ==
  [m EXCEPT !.mg = @ + 1, !.wa = 0, !.wb = 0, !.galloping = FALSE]

\* workArray[dest++] = workArray[cursorB++]; --lengthB
LowTakeB(m) ==
  [m EXCEPT !.a[m.dest + 1] = m.a[m.cur + 1],
            !.dest = @ + 1, !.cur = @ + 1, !.lengthB = @ - 1]

\* workArray[dest++] = tempArray[cursorTemp++]; --lengthA
LowTakeTemp(m) ==
  [m EXCEPT !.a[m.dest + 1] = m.temp[m.ct + 1],
            !.dest = @ + 1, !.ct = @ + 1, !.lengthA = @ - 1]

\* label Succeed
LowSucceed(m) ==
  [m EXCEPT !.a = IF m.lengthA > 0
                  THEN CopyRange(m.temp, m.ct, m.a, m.dest, m.lengthA)
                  ELSE @,
            !.done = TRUE]

\* label CopyB: the last element of run A belongs at the end of the merge
LowCopyB(m) ==
  [m EXCEPT !.a = [CopyRange(m.a, m.cur, m.a, m.dest, m.lengthB)
                     EXCEPT ![m.dest + m.lengthB + 1] = m.temp[m.ct + 1]],
            !.done = TRUE]

\* a pass of the straightforward merge, which goes on until one run wins
\* minGallop times in a row
MergeLowOneByOne(c, m) ==
  LET TookB(n) ==
        IF n.lengthB = 0 THEN LowSucceed(n)
        ELSE IF n.wb >= n.mg THEN StartGalloping(n)
        ELSE n
      TookA(n) ==
        IF n.lengthA = 1 THEN LowCopyB(n)
        ELSE IF n.wa >= n.mg THEN StartGalloping(n)
        ELSE n
  IN IF Order(c, m.a[m.cur + 1], m.temp[m.ct + 1]) < 0
     THEN TookB([LowTakeB(m) EXCEPT !.wb = @ + 1, !.wa = 0])
     ELSE TookA([LowTakeTemp(m) EXCEPT !.wa = @ + 1, !.wb = 0])

\* a pass of the galloping merge, which goes on for as long as a run wins
\* kMinGallopWins at once
MergeLowGalloping(c, m) ==
  LET TookA(n) ==
        IF n.lengthA = 1 THEN LowCopyB(n) ELSE [n EXCEPT !.firstIteration = FALSE]
      CopiedB(n) ==
        IF n.wb > 0 /\ n.lengthB = 0 THEN LowSucceed(n) ELSE TookA(LowTakeTemp(n))
      WonB(n, k) ==
        CopiedB(IF k > 0
                THEN [n EXCEPT !.a = CopyRange(n.a, n.cur, n.a, n.dest, k),
                               !.dest = @ + k, !.cur = @ + k,
                               !.lengthB = @ - k, !.wb = k]
                ELSE [n EXCEPT !.wb = k])
      TookB(n) ==
        IF n.lengthB = 0 THEN LowSucceed(n)
        ELSE WonB(n, GallopLeft(c, n.a, n.temp[n.ct + 1], n.cur, n.lengthB, 0))
      CopiedA(n) ==
        IF n.wa > 0 /\ n.lengthA = 1 THEN LowCopyB(n)
        ELSE IF n.wa > 0 /\ n.lengthA = 0 THEN LowSucceed(n)
        ELSE TookB(LowTakeB(n))
      WonA(n, k) ==
        CopiedA(IF k > 0
                THEN [n EXCEPT !.a = CopyRange(n.temp, n.ct, n.a, n.dest, k),
                               !.dest = @ + k, !.ct = @ + k,
                               !.lengthA = @ - k, !.wa = k]
                ELSE [n EXCEPT !.wa = k])
      Entered(n) ==
        WonA(n, GallopRight(c, n.temp, n.a[n.cur + 1], n.ct, n.lengthA, 0))
  IN IF m.wa >= kMinGallopWins \/ m.wb >= kMinGallopWins \/ m.firstIteration
     THEN Entered([m EXCEPT !.mg = IF @ - 1 < 1 THEN 1 ELSE @ - 1])
     ELSE StopGalloping(m)

\* up to n passes of the merge
RECURSIVE MergeLowPasses(_, _, _)
MergeLowPasses(c, m, n) ==
  IF m.done \/ n = 0 THEN m
  ELSE IF n = 1
  THEN IF m.galloping THEN MergeLowGalloping(c, m) ELSE MergeLowOneByOne(c, m)
  ELSE MergeLowPasses(c, MergeLowPasses(c, m, n \div 2), n - (n \div 2))

\* merges the runs at baseA and baseB, lengthA <= lengthB; answers the work
\* array and minGallop.  A pass takes an element or changes the loop, so
\* twice the elements and two are passes enough.
MergeLow(c, array, minGallop, baseA, lengthA, baseB, lengthB) ==
  LET Begun(m) ==
        IF m.lengthB = 0 THEN LowSucceed(m)
        ELSE IF m.lengthA = 1 THEN LowCopyB(m)
        ELSE MergeLowPasses(c, m, 2 * (lengthA + lengthB) + 2)
  IN Begun(LowTakeB(MergeState(array, SubSeq(array, baseA + 1, baseA + lengthA),
                               baseA, 0, baseB, baseA, lengthA, lengthB, minGallop)))

\* workArray[dest--] = workArray[cursorA--]; --lengthA
HighTakeA(m) ==
  [m EXCEPT !.a[m.dest + 1] = m.a[m.cur + 1],
            !.dest = @ - 1, !.cur = @ - 1, !.lengthA = @ - 1]

\* workArray[dest--] = tempArray[cursorTemp--]; --lengthB
HighTakeTemp(m) ==
  [m EXCEPT !.a[m.dest + 1] = m.temp[m.ct + 1],
            !.dest = @ - 1, !.ct = @ - 1, !.lengthB = @ - 1]

\* label Succeed
HighSucceed(m) ==
  [m EXCEPT !.a = IF m.lengthB > 0
                  THEN CopyRange(m.temp, 0, m.a, m.dest - (m.lengthB - 1), m.lengthB)
                  ELSE @,
            !.done = TRUE]

\* label CopyA: the first element of run B belongs at the front of the merge
HighCopyA(m) ==
  [m EXCEPT !.a = [CopyRange(m.a, m.cur - m.lengthA + 1, m.a,
                             m.dest - m.lengthA + 1, m.lengthA)
                     EXCEPT ![m.dest - m.lengthA + 1] = m.temp[m.ct + 1]],
            !.done = TRUE]

MergeHighOneByOne(c, m) ==
  LET TookA(n) ==
        IF n.lengthA = 0 THEN HighSucceed(n)
        ELSE IF n.wa >= n.mg THEN StartGalloping(n)
        ELSE n
      TookB(n) ==
        IF n.lengthB = 1 THEN HighCopyA(n)
        ELSE IF n.wb >= n.mg THEN StartGalloping(n)
        ELSE n
  IN IF Order(c, m.temp[m.ct + 1], m.a[m.cur + 1]) < 0
     THEN TookA([HighTakeA(m) EXCEPT !.wa = @ + 1, !.wb = 0])
     ELSE TookB([HighTakeTemp(m) EXCEPT !.wb = @ + 1, !.wa = 0])

MergeHighGalloping(c, m) ==
  LET TookA(n) ==
        IF n.lengthA = 0 THEN HighSucceed(n) ELSE [n EXCEPT !.firstIteration = FALSE]
      CopiedB(n) ==
        IF n.wb > 0 /\ n.lengthB = 1 THEN HighCopyA(n)
        ELSE IF n.wb > 0 /\ n.lengthB = 0 THEN HighSucceed(n)
        ELSE TookA(HighTakeA(n))
      WonB(n, k) ==
        CopiedB(IF k > 0
                THEN [n EXCEPT !.a = CopyRange(n.temp, n.ct - k + 1, n.a, n.dest - k + 1, k),
                               !.dest = @ - k, !.ct = @ - k,
                               !.lengthB = @ - k, !.wb = k]
                ELSE [n EXCEPT !.wb = k])
      TookB(n) ==
        IF n.lengthB = 1 THEN HighCopyA(n)
        ELSE WonB(n, n.lengthB - GallopLeft(c, n.temp, n.a[n.cur + 1], 0,
                                            n.lengthB, n.lengthB - 1))
      CopiedA(n) ==
        IF n.wa > 0 /\ n.lengthA = 0 THEN HighSucceed(n)
        ELSE TookB(HighTakeTemp(n))
      WonA(n, k) ==
        CopiedA(IF k > 0
                THEN [n EXCEPT !.a = CopyRange(n.a, n.cur - k + 1, n.a, n.dest - k + 1, k),
                               !.dest = @ - k, !.cur = @ - k,
                               !.lengthA = @ - k, !.wa = k]
                ELSE [n EXCEPT !.wa = k])
      Entered(n) ==
        WonA(n, n.lengthA - GallopRight(c, n.a, n.temp[n.ct + 1], n.base,
                                        n.lengthA, n.lengthA - 1))
  IN IF m.wa >= kMinGallopWins \/ m.wb >= kMinGallopWins \/ m.firstIteration
     THEN Entered([m EXCEPT !.mg = IF @ - 1 < 1 THEN 1 ELSE @ - 1])
     ELSE StopGalloping(m)

RECURSIVE MergeHighPasses(_, _, _)
MergeHighPasses(c, m, n) ==
  IF m.done \/ n = 0 THEN m
  ELSE IF n = 1
  THEN IF m.galloping THEN MergeHighGalloping(c, m) ELSE MergeHighOneByOne(c, m)
  ELSE MergeHighPasses(c, MergeHighPasses(c, m, n \div 2), n - (n \div 2))

\* merges the runs at baseA and baseB, lengthA > lengthB
MergeHigh(c, array, minGallop, baseA, lengthA, baseB, lengthB) ==
  LET Begun(m) ==
        IF m.lengthA = 0 THEN HighSucceed(m)
        ELSE IF m.lengthB = 1 THEN HighCopyA(m)
        ELSE MergeHighPasses(c, m, 2 * (lengthA + lengthB) + 2)
  IN Begun(HighTakeA(MergeState(array, SubSeq(array, baseB + 1, baseB + lengthB),
                                baseB + lengthB - 1, lengthB - 1,
                                baseA + lengthA - 1, baseA, lengthA, lengthB,
                                minGallop)))

(***************************************************************************)
(* The state of the sort: a the work array, mg minGallop, runs the stack   *)
(* of pending runs (base and length of each).                              *)
(***************************************************************************)
\* merges the runs i and i + 1 of the stack: the elements of run A that go
\* before run B and those of run B that go after run A stay where they are
MergeAt(c, s, i) ==
  LET runA == s.runs[i + 1]
      runB == s.runs[i + 2]
      runs == SubSeq(s.runs, 1, i)
                \o <<[base |-> runA.base, length |-> runA.length + runB.length]>>
                \o SubSeq(s.runs, i + 3, Len(s.runs))
      Merged(r) == [s EXCEPT !.a = r.a, !.mg = r.mg, !.runs = runs]
      Trimmed(baseA, lengthA, lengthB) ==
        IF lengthB = 0 THEN [s EXCEPT !.runs = runs]
        ELSE IF lengthA <= lengthB
        THEN Merged(MergeLow(c, s.a, s.mg, baseA, lengthA, runB.base, lengthB))
        ELSE Merged(MergeHigh(c, s.a, s.mg, baseA, lengthA, runB.base, lengthB))
      Skipped(k) ==
        IF runA.length - k = 0 THEN [s EXCEPT !.runs = runs]
        ELSE Trimmed(runA.base + k, runA.length - k,
                     GallopLeft(c, s.a, s.a[runA.base + runA.length], runB.base,
                                runB.length, runB.length - 1))
  IN Skipped(GallopRight(c, s.a, s.a[runB.base + 1], runA.base, runA.length, 0))

\* run n of the stack is shorter than the one two below it is long beyond
\* the one below it
RunInvariantEstablished(runs, n) ==
  n < 2 \/ runs[n - 1].length > runs[n].length + runs[n + 1].length

RECURSIVE MergeCollapse(_, _)
MergeCollapse(c, s) ==
  LET n == Len(s.runs) - 2
      \* the run to merge with the one above it, -1 for none
      at == IF ~RunInvariantEstablished(s.runs, n + 1)
               \/ ~RunInvariantEstablished(s.runs, n)
            THEN IF s.runs[n].length < s.runs[n + 2].length THEN n - 1 ELSE n
            ELSE IF s.runs[n + 1].length <= s.runs[n + 2].length THEN n
            ELSE -1
  IN IF Len(s.runs) <= 1 THEN s
     ELSE IF at < 0 THEN s
     ELSE MergeCollapse(c, MergeAt(c, s, at))

RECURSIVE MergeForceCollapse(_, _)
MergeForceCollapse(c, s) ==
  LET n == Len(s.runs) - 2
  IN IF Len(s.runs) <= 1 THEN s
     ELSE MergeForceCollapse(c, MergeAt(c, s,
                                        IF n > 0 /\ s.runs[n].length < s.runs[n + 2].length
                                        THEN n - 1 ELSE n))

\* a pass of the loop of ArrayTimSortImpl: the next run, lengthened to
\* minRunLength, is pushed and the stack collapsed
NextRun(c, s, minRunLength) ==
  LET Pushed(array, run) ==
        [MergeCollapse(c, [s EXCEPT !.a = array,
                                    !.runs = Append(@, [base |-> s.low,
                                                        length |-> run])])
           EXCEPT !.low = @ + run, !.remaining = @ - run]
      Counted(m, forced) ==
        Pushed(IF m.run < minRunLength
               THEN BinaryInsertionSort(c, m.array, s.low, s.low + m.run,
                                        s.low + forced)
               ELSE m.array,
               IF m.run < minRunLength THEN forced ELSE m.run)
  IN Counted(CountAndMakeRun(c, s.a, s.low, s.low + s.remaining),
             IF minRunLength < s.remaining THEN minRunLength ELSE s.remaining)

\* up to n passes of the loop
RECURSIVE SortRuns(_, _, _, _)
SortRuns(c, s, minRunLength, n) ==
  IF s.remaining = 0 \/ n = 0 THEN s
  ELSE IF n = 1 THEN NextRun(c, s, minRunLength)
  ELSE SortRuns(c, SortRuns(c, s, minRunLength, n \div 2), minRunLength,
                n - (n \div 2))

\* array.sort(comparator); a run has an element at least, so the loop makes
\* no more passes than the array has elements
ArraySort(h, array, key, numeric) ==
  LET c == [a, b \in Nat |-> Compare(h, a, b, key, numeric)]
  IN IF Len(array) < 2 THEN array
     ELSE MergeForceCollapse(c, SortRuns(c, [a |-> array, mg |-> kMinGallopWins,
                                             runs |-> <<>>, low |-> 0,
                                             remaining |-> Len(array)],
                                         ComputeMinRunLength(Len(array)),
                                         Len(array))).a

\* `own` tells whether the array returned is the collection's own (never:
\* the sort works on this._store[name].slice())
\* mutant: an unknown collection sorts as an empty one
sortByLenient(h, st, name, key) ==
  IF ~st[name].defined THEN [err |-> "none", ret |-> <<>>, own |-> FALSE]
  ELSE [err |-> "none", ret |-> st[name].models, own |-> FALSE]

sortBy(h, st, name, key) ==
  LET k == IF key = "" THEN "id" ELSE key
  IN IF ~st[name].defined
     THEN [err |-> "TypeError", ret |-> <<>>, own |-> FALSE]
     ELSE LET sortedArray == st[name].models
          IN IF Len(sortedArray) # 0 /\ k # "id"
             THEN [err |-> "none",
                   ret |-> ArraySort(h, sortedArray, k,
                                     TypeOf(Get(h, Ref(sortedArray[1]), k)) = "number"),
                   own |-> FALSE]
             ELSE [err |-> "none", ret |-> sortedArray, own |-> FALSE]

(***************************************************************************)
(* removeModels(name, models), models already a sequence of objects, and   *)
(* removeWhere(name, key, val).                                            *)
(* _binarySearchIndex returns undefined for an empty or differently typed  *)
(* collection, and reading `.idx` of undefined is a TypeError.             *)
(***************************************************************************)
RECURSIVE removeLoop(_, _, _, _, _)
removeLoop(h, collection, models, i, deleted) ==
  IF i > Len(models)
  THEN [collection |-> collection, deleted |-> deleted, err |-> "none"]
  ELSE LET r == BinarySearchIndex(h, collection, Get(h, models[i], "id"), "id")
       IN IF Get(h, models[i], "id") = TypeError
          THEN [collection |-> collection, deleted |-> deleted, err |-> "TypeError"]
          ELSE IF r.err # "none"
          THEN [collection |-> collection, deleted |-> deleted, err |-> r.err]
          ELSE IF ~r.def
          THEN [collection |-> collection, deleted |-> deleted, err |-> "TypeError"]
          ELSE IF r.idx # -1
          THEN removeLoop(h, RemoveAt(collection, r.idx), models, i + 1,
                          Append(deleted, collection[r.idx + 1]))
          ELSE removeLoop(h, collection, models, i + 1, deleted)

removeModels(h, st, name, models) ==
  IF ~st[name].defined
  THEN [store |-> st, ret |-> <<>>, err |-> "UnknownCollection"]
  ELSE LET r == removeLoop(h, st[name].models, models, 1, <<>>)
       IN [store |-> [st EXCEPT ![name].models = r.collection],
           ret |-> IF r.err = "none" THEN r.deleted ELSE <<>>,
           err |-> r.err]

\* mutant: the call without key and value is not refused
removeWhereUnchecked(h, st, name, key, val) ==
  LET models == all(h, st, name, key, val)
  IN IF models.err # "none"
     THEN [store |-> st, ret |-> <<>>, err |-> models.err]
     ELSE removeModels(h, st, name, [i \in 1..Len(models.ret) |-> Ref(models.ret[i])])

removeWhere(h, st, name, key, val) ==
  IF key = Undef /\ val = Undef
  THEN [store |-> st, ret |-> <<>>, err |-> "AmbiguousRemoval"]
  ELSE LET models == all(h, st, name, key, val)
       IN IF models.err # "none"
          THEN [store |-> st, ret |-> <<>>, err |-> models.err]
          ELSE removeModels(h, st, name, [i \in 1..Len(models.ret) |-> Ref(models.ret[i])])

(***************************************************************************)
(* Inputs.  A record of a payload is described by its id (Absent: no id    *)
(* property), its title (Absent, a string or null), its nested `obj`       *)
(* ("none", "obj" for {a: 1}, "arr" for [{a: 1}]) and whether the caller   *)
(* built it as an instance of ShallowData (inst) or as a plain object.     *)
(* A payload is an array of records, one record passed directly, or a      *)
(* value that is neither (a number, a string, null).                       *)
(***************************************************************************)
StrIds == {<<1, 2>>, <<2>>}                       \* "ab", "b"
IdVals == {Num(i) : i \in 1..MaxId} \cup {Str(x) : x \in StrIds}
TitleX == Str(<<24>>)
TitleY == Str(<<25>>)

SeqsUpTo(S, k) == UNION {[1..j -> S] : j \in 0..k}

Rec(id, title, obj, inst) == [id |-> id, title |-> title, obj |-> obj, inst |-> inst]

ArrayPayloads(R, k) == {[kind |-> "array", recs |-> rs, v |-> Undef] : rs \in SeqsUpTo(R, k)}
SinglePayloads(R) == {[kind |-> "single", recs |-> <<r>>, v |-> Undef] : r \in R}
ValuePayloads == {[kind |-> "value", recs |-> <<>>, v |-> x] : x \in {Num(1), TitleX, Null}}

\* the caller builds the nested part of a record
BuildNested(h, choice) ==
  IF choice = "obj"
  THEN LET h1 == Append(h, [NewObject("Object") EXCEPT !.props["a"] = Num(1)])
       IN [h |-> h1, v |-> Ref(Len(h1))]
  ELSE IF choice = "arr"
  THEN LET h1 == Append(h, [NewObject("Object") EXCEPT !.props["a"] = Num(1)])
           h2 == Append(h1, [NewArray EXCEPT !.elems = <<Ref(Len(h1))>>])
       IN [h |-> h2, v |-> Ref(Len(h2))]
  ELSE IF choice = "other"
  THEN LET h1 == Append(h, [NewObject("Object") EXCEPT !.props["title"] = TitleX])
       IN [h |-> h1, v |-> Ref(Len(h1))]
  ELSE IF choice = "empty"
  THEN LET h1 == Append(h, NewArray)
       IN [h |-> h1, v |-> Ref(Len(h1))]
  ELSE [h |-> h, v |-> Absent]

BuildRecord(h, r) ==
  LET nested == BuildNested(h, r.obj)
      object == [NewObject(IF r.inst THEN "ShallowData" ELSE "Object")
                   EXCEPT !.props["id"] = r.id,
                          !.props["title"] = r.title,
                          !.props["obj"] = nested.v]
      h1 == Append(nested.h, object)
  IN [h |-> h1, v |-> Ref(Len(h1))]

RECURSIVE BuildRecords(_, _, _, _)
BuildRecords(h, recs, i, acc) ==
  IF i > Len(recs) THEN [h |-> h, vs |-> acc]
  ELSE LET r == BuildRecord(h, recs[i])
       IN BuildRecords(r.h, recs, i + 1, Append(acc, r.v))

\* the elements load iterates over: the payload array's, or the one record
ElemsOf(h, pl) ==
  IF pl = <<>> \/ TypeOf(pl[1]) # "object" THEN <<>>
  ELSE IF IsArray(h, pl[1]) THEN h[pl[1].n].elems
  ELSE <<pl[1]>>

BuildPayload(h, pd) ==
  IF pd.kind = "value" THEN [h |-> h, v |-> pd.v]
  ELSE LET b == BuildRecords(h, pd.recs, 1, <<>>)
       IN IF pd.kind = "single" THEN [h |-> b.h, v |-> b.vs[1]]
          ELSE LET h1 == Append(b.h, [NewArray EXCEPT !.elems = b.vs])
               IN [h |-> h1, v |-> Ref(Len(h1))]

(***************************************************************************)
(* Garbage collection and canonical numbering of the heap: the objects     *)
(* reachable from the store, the caller's references and the last result   *)
(* are renumbered in the order a depth-first walk meets them.              *)
(***************************************************************************)
InSeq(seq, x) == \E i \in 1..Len(seq) : seq[i] = x
IndexOf(seq, x) == CHOOSE i \in 1..Len(seq) : seq[i] = x

Children(h, a) ==
  IF h[a].kind = "array" THEN h[a].elems
  ELSE [i \in 1..Len(KeySeq) |-> h[a].props[KeySeq[i]]]

RECURSIVE Visit(_, _, _)
Visit(h, todo, acc) ==
  IF todo = <<>> THEN acc
  ELSE LET v == Head(todo)
       IN IF v.t = "ref" /\ ~InSeq(acc, v.n)
          THEN Visit(h, Children(h, v.n) \o Tail(todo), Append(acc, v.n))
          ELSE Visit(h, Tail(todo), acc)

Refs(addrs) == [i \in 1..Len(addrs) |-> Ref(addrs[i])]

NameSeq == <<"a", "b">>

StoreRoots(st) == Refs(st["a"].models) \o Refs(st["b"].models)

RenameV(order, v) == IF v.t = "ref" THEN Ref(IndexOf(order, v.n)) ELSE v
RenameSeq(order, addrs) == [i \in 1..Len(addrs) |-> IndexOf(order, addrs[i])]

RenameHeap(h, order) ==
  [i \in 1..Len(order) |->
     LET o == h[order[i]]
     IN [o EXCEPT !.props = [k \in Keys |-> RenameV(order, o.props[k])],
                  !.elems = [j \in 1..Len(o.elems) |-> RenameV(order, o.elems[j])]]]

NoHeld == [live |-> FALSE, name |-> "a", id |-> Undef, ref |-> 0]

Commit(h, st, fac, pl, hd, lo) ==
  LET roots == StoreRoots(st)
               \o (IF hd.live THEN <<Ref(hd.ref)>> ELSE <<>>)
               \o pl \o Refs(lo.ret)
      order == Visit(h, roots, <<>>)
  IN /\ heap' = RenameHeap(h, order)
     /\ store' = [n \in Names |-> [st[n] EXCEPT !.models = RenameSeq(order, @)]]
     /\ factories' = fac
     /\ payload' = [i \in 1..Len(pl) |-> RenameV(order, pl[i])]
     /\ held' = IF hd.live THEN [hd EXCEPT !.ref = IndexOf(order, @)] ELSE NoHeld
     /\ lastOp' = [lo EXCEPT !.ret = RenameSeq(order, @),
                            !.args = IF lo.op = "createModelOfType"
                                     THEN [c \in 1..Len(lo.args) |->
                                             [i \in 1..Len(lo.args[c]) |->
                                                RenameV(order, lo.args[c][i])]]
                                     ELSE @]

(***************************************************************************)
(* State: the constructor leaves both maps empty.                          *)
(*  payload: the value the caller passed to the last load, while the       *)
(*           caller still holds it;                                        *)
(*  held:    a record the caller obtained from find and keeps;             *)
(*  lastOp:  the last call, its outcome (err = "none" when it returned),   *)
(*           its result `ret`, the values `args` it was given (for         *)
(*           createModelOfType: the argument lists the factory's create    *)
(*           was called with, one per call) and, for a load, the number    *)
(*           `done` of records applied.                                    *)
(* A call is made when the caller is idle; Forget is the caller letting go *)
(* of the payload and the result of the last call.                         *)
(***************************************************************************)
Op(op, name, err, ret, args, done) ==
  [op |-> op, name |-> name, err |-> err, ret |-> ret, args |-> args, done |-> done]

Init ==
  /\ store = [n \in Names |-> [defined |-> FALSE, models |-> <<>>]]
  /\ factories = [n \in Names |-> "none"]
  /\ heap = <<>>
  /\ payload = <<>>
  /\ held = NoHeld
  /\ lastOp = Op("idle", "a", "none", <<>>, <<>>, 0)

Idle == lastOp.op = "idle"

\* the caller's reference dies with the record it points to
Keep(st, hd) ==
  IF hd.live /\ InSeq(st[hd.name].models, hd.ref) THEN hd ELSE NoHeld

(***************************************************************************)
(* Operations.                                                             *)
(***************************************************************************)
\* mutant: adding an existing name starts the collection afresh
AddAfresh(name) ==
  /\ Idle
  /\ Commit(heap, [store EXCEPT ![name] = [defined |-> TRUE, models |-> <<>>]],
            factories, <<>>, Keep([store EXCEPT ![name].models = <<>>], held),
            Op("add", name, "none", <<>>, <<>>, 0))

Add(name) ==
  /\ Idle
  /\ IF store[name].defined
     THEN Commit(heap, store, factories, <<>>, held,
                 Op("add", name, "DuplicateCollection", <<>>, <<>>, 0))
     ELSE Commit(heap, [store EXCEPT ![name] = [defined |-> TRUE, models |-> <<>>]],
                 factories, <<>>, held, Op("add", name, "none", <<>>, <<>>, 0))

\* mutant: clear forgets the factories with the records
ClearForgetting ==
  /\ Idle
  /\ LET st == [n \in Names |-> [store[n] EXCEPT !.models = <<>>]]
     IN Commit(heap, st, [n \in Names |-> "none"], <<>>, Keep(st, held),
               Op("clear", "a", "none", <<>>, <<>>, 0))

Clear ==
  /\ Idle
  /\ LET st == [n \in Names |-> [store[n] EXCEPT !.models = <<>>]]
     IN Commit(heap, st, factories, <<>>, Keep(st, held),
               Op("clear", "a", "none", <<>>, <<>>, 0))

ClearFactories ==
  /\ Idle
  /\ Commit(heap, store, [n \in Names |-> "none"], <<>>, held,
            Op("clearFactories", "a", "none", <<>>, <<>>, 0))

RemoveFactory(name) ==
  /\ Idle
  /\ Commit(heap, store, [factories EXCEPT ![name] = "none"], <<>>, held,
            Op("removeFactory", name, "none", <<>>, <<>>, 0))

\* mutant: a valid factory replaces the one already bound
AddFactoryReplacing(name, factory) ==
  /\ Idle
  /\ IF ~store[name].defined
     THEN Commit(heap, store, factories, <<>>, held,
                 Op("addFactory", name, "UnknownCollection", <<>>, <<factory>>, 0))
     ELSE IF ~IsFunction(factory) \/ ~HasCreate(factory)
     THEN Commit(heap, store, factories, <<>>, held,
                 Op("addFactory", name, "InvalidFactory", <<>>, <<factory>>, 0))
     ELSE Commit(heap, store, [factories EXCEPT ![name] = factory], <<>>, held,
                 Op("addFactory", name, "none", <<>>, <<factory>>, 0))

AddFactory(name, factory) ==
  /\ Idle
  /\ IF ~store[name].defined
     THEN Commit(heap, store, factories, <<>>, held,
                 Op("addFactory", name, "UnknownCollection", <<>>, <<factory>>, 0))
     ELSE IF factories[name] # "none"
     THEN Commit(heap, store, factories, <<>>, held,
                 Op("addFactory", name, "InvalidFactory", <<>>, <<factory>>, 0))
     ELSE IF ~IsFunction(factory) \/ ~HasCreate(factory)
     THEN Commit(heap, store, factories, <<>>, held,
                 Op("addFactory", name, "InvalidFactory", <<>>, <<factory>>, 0))
     ELSE Commit(heap, store, [factories EXCEPT ![name] = factory], <<>>, held,
                 Op("addFactory", name, "none", <<>>, <<factory>>, 0))

Load(name, pd) ==
  /\ Idle
  /\ LET Loaded(r, given) ==
           Commit(r.h, r.store, factories, <<given>>, held,
                  Op("load", name, r.err, <<>>, <<>>, r.done))
         Built(b) == Loaded(load(b.h, store, factories, name, b.v), b.v)
     IN Built(BuildPayload(heap, pd))

\* the caller loads the payload it still holds once more
Reload ==
  /\ lastOp.op = "load"
  /\ LET r == load(heap, store, factories, lastOp.name, payload[1])
     IN Commit(r.h, r.store, factories, payload, held,
               Op("reload", lastOp.name, r.err, <<>>, <<>>, r.done))

\* the caller changes a part of the payload it loaded without a factory
MutatePayload(a) ==
  /\ lastOp.op = "load"
  /\ factories[lastOp.name] = "none"
  /\ InSeq(Visit(heap, payload, <<>>), a)
  /\ LET h == IF heap[a].kind = "array"
              THEN [heap EXCEPT ![a].elems = Append(@, Num(2))]
              ELSE [heap EXCEPT ![a].props["a"] = Num(2)]
     IN Commit(h, store, factories, payload, held,
               Op("mutate", lastOp.name, "none", <<>>, <<a>>, 0))

Forget ==
  /\ ~Idle
  /\ Commit(heap, store, factories, <<>>, held, Op("idle", "a", "none", <<>>, <<>>, 0))

Find(name, key) ==
  /\ Idle
  /\ LET r == find(heap, store, name, key, Undef)
     IN Commit(heap, store, factories, <<>>,
               IF r.ret # <<>>
               THEN [live |-> TRUE, name |-> name, id |-> key, ref |-> r.ret[1]]
               ELSE held,
               Op("find", name, r.err, r.ret, <<key>>, 0))

\* the caller passes objects {id: ...} (or {} for Undef)
RemoveModels(name, ids) ==
  /\ Idle
  /\ LET b == BuildRecords(heap, [i \in 1..Len(ids) |->
                   Rec(IF ids[i] = Undef THEN Absent ELSE ids[i], Absent, "none", FALSE)],
                   1, <<>>)
         r == removeModels(b.h, store, name, b.vs)
     IN Commit(b.h, r.store, factories, <<>>, Keep(r.store, held),
               Op("removeModels", name, r.err, r.ret, ids, 0))

RemoveWhere(name, key, val) ==
  /\ Idle
  /\ LET r == removeWhere(heap, store, name, key, val)
     IN Commit(heap, r.store, factories, <<>>, Keep(r.store, held),
               Op("removeWhere", name, r.err, r.ret, <<key, val>>, 0))

(***************************************************************************)
(* Spec: every mutating operation on one collection name, payloads of      *)
(* plain objects over every id (numbers and strings, or none).             *)
(***************************************************************************)
OrderRecs == {Rec(id, Absent, "none", FALSE) : id \in IdVals \cup {Absent}}
OrderPayloads ==
  ArrayPayloads(OrderRecs, MaxPayload) \cup SinglePayloads(OrderRecs) \cup ValuePayloads
RemoveIds == SeqsUpTo({Num(1), Num(MaxId), Str(<<2>>), Undef}, MaxPayload)
SearchKeys == IdVals \cup {Undef, KeyName("id")}
SearchVals == {Undef, Num(1), Str(<<2>>)}

Next ==
  \/ Add("a")
  \/ Clear
  \/ ClearFactories
  \/ RemoveFactory("a")
  \/ \E factory \in FactoryArgs : AddFactory("a", factory)
  \/ \E pd \in OrderPayloads : Load("a", pd)
  \/ \E ids \in RemoveIds : RemoveModels("a", ids)
  \/ \E key \in SearchKeys, val \in SearchVals : RemoveWhere("a", key, val)
  \/ Forget

Spec == Init /\ [][Next]_vars

(***************************************************************************)
(* SpecMerge: one collection, two numeric ids, records with every shape of *)
(* field (a title that is absent, a string or null; a nested keyed         *)
(* structure or sequence), plain or instances of the factory, and a record *)
(* with a string id; the caller may keep a record it found, load its       *)
(* payload again, or change the payload after the load.                    *)
(***************************************************************************)
MergeRecs ==
  {Rec(Num(1), Absent, "none", FALSE),
   Rec(Num(1), TitleX, "none", FALSE),
   Rec(Num(1), TitleY, "obj", FALSE),
   Rec(Num(1), Null, "none", FALSE),
   Rec(Num(1), Absent, "arr", FALSE),
   Rec(Num(2), TitleX, "none", FALSE),
   Rec(Num(1), TitleY, "obj", TRUE)}

\* the records of the payloads of several records
BatchRecs ==
  {Rec(Num(1), TitleX, "none", FALSE),
   Rec(Num(1), TitleY, "obj", FALSE),
   Rec(Num(2), TitleX, "none", FALSE),
   Rec(Str(<<2>>), Absent, "none", FALSE)}

MergePayloads ==
  SinglePayloads(MergeRecs) \cup ArrayPayloads(BatchRecs, MaxPayload)

NextMerge ==
  \/ Add("a")
  \/ Clear
  \/ AddFactory("a", "ShallowData")
  \/ RemoveFactory("a")
  \/ \E pd \in MergePayloads : Load("a", pd)
  \/ Reload
  \/ \E a \in 1..Len(heap) : MutatePayload(a)
  \/ \E key \in {Num(1), Num(2)} : Find("a", key)
  \/ \E id \in {Num(1), Num(2)} : RemoveModels("a", <<id>>)
  \/ Forget

SpecMerge == Init /\ [][NextMerge]_vars

(***************************************************************************)
(* SpecIndex: the search helpers called directly on a sequence sorted      *)
(* ascending by `key` (equal keys allowed), with a value below, among or   *)
(* above the keys, of the keys' type or not, or undefined.  The sequence   *)
(* is collection "a"; lastOp.args holds the value and the key name,        *)
(* lastOp.done the index returned.                                         *)
(***************************************************************************)
IndexNums == {Num(i) : i \in 0..(MaxId + 1)}
IndexStrs == {Str(x) : x \in StrIds \cup {<<1>>}}
IndexKeys == {"id", "title"}

IsSorted(vs) == \A i \in 1..(Len(vs) - 1) : ~Less(<<>>, vs[i + 1], vs[i])

SortedSeqs ==
  {vs \in SeqsUpTo({Num(i) : i \in 1..MaxId}, MaxLen) : IsSorted(vs)}
    \cup {vs \in SeqsUpTo(IndexStrs, MaxLen) : IsSorted(vs)}

InitIndex ==
  \E vs \in SortedSeqs, key \in IndexKeys :
    /\ heap = [i \in 1..Len(vs) |-> [NewObject("Object") EXCEPT !.props[key] = vs[i]]]
    /\ store = [n \in Names |->
                  IF n = "a" THEN [defined |-> TRUE, models |-> [i \in 1..Len(vs) |-> i]]
                  ELSE [defined |-> FALSE, models |-> <<>>]]
    /\ factories = [n \in Names |-> "none"]
    /\ payload = <<>>
    /\ held = NoHeld
    /\ lastOp = Op("idle", "a", "none", <<>>, <<>>, 0)

GetInsertIndexCall(value, key) ==
  /\ LET r == GetInsertIndex(heap, store["a"].models, value, key)
     IN lastOp' = Op("_getInsertIndex", "a", r.err, <<>>, <<value, KeyName(key)>>, r.idx)
  /\ UNCHANGED <<store, factories, heap, payload, held>>

NextIndex ==
  \E value \in IndexNums \cup IndexStrs \cup {Undef}, key \in IndexKeys :
    GetInsertIndexCall(value, key)

SpecIndex == InitIndex /\ [][NextIndex]_vars

(***************************************************************************)
(* SpecSearch: the sequences and values of SpecIndex, with the two lookup  *)
(* helpers called as well.  For _binarySearchIndex lastOp.done is the idx  *)
(* of the result, -1 for {idx: undefined} and -2 when the function returns *)
(* undefined; for _binarySearch lastOp.ret holds the element returned.     *)
(***************************************************************************)
BinarySearchIndexCall(value, key) ==
  /\ LET r == BinarySearchIndex(heap, store["a"].models, value, key)
     IN lastOp' = Op("_binarySearchIndex", "a", r.err, <<>>, <<value, KeyName(key)>>,
                     IF r.def THEN r.idx ELSE -2)
  /\ UNCHANGED <<store, factories, heap, payload, held>>

BinarySearchCall(value, key) ==
  /\ LET r == BinarySearch(heap, store["a"].models, value, key)
     IN lastOp' = Op("_binarySearch", "a", r.err,
                     IF r.v = Undef THEN <<>> ELSE <<r.v.n>>,
                     <<value, KeyName(key)>>, 0)
  /\ UNCHANGED <<store, factories, heap, payload, held>>

NextSearch ==
  \E value \in IndexNums \cup IndexStrs \cup {Undef}, key \in IndexKeys :
    \/ GetInsertIndexCall(value, key)
    \/ BinarySearchIndexCall(value, key)
    \/ BinarySearchCall(value, key)

SpecSearch == InitIndex /\ [][NextSearch]_vars

(***************************************************************************)
(* SpecQuery: collection "a" (added at some point) and collection "b"      *)
(* (never added), records with numeric ids and titles, no factory; every   *)
(* operation that takes a collection name is called on both names.         *)
(***************************************************************************)
\* for an all, `done` is 1 when the array returned is the collection's own
All(name, key, val) ==
  /\ Idle
  /\ LET r == all(heap, store, name, key, val)
     IN Commit(heap, store, factories, <<>>, held,
               Op("all", name, r.err, r.ret, <<key, val>>, IF r.own THEN 1 ELSE 0))

\* the caller changes the array that all or sortBy returned: push({}), pop()
\* or reverse()
Reverse(seq) == [i \in 1..Len(seq) |-> seq[Len(seq) + 1 - i]]

MutateResult(how) ==
  /\ lastOp.op \in {"all", "sortBy"}
  /\ lastOp.err = "none"
  /\ LET h == IF how = "push" THEN Append(heap, NewObject("Object")) ELSE heap
         ret == IF how = "push" THEN Append(lastOp.ret, Len(h))
                ELSE IF how = "pop"
                THEN SubSeq(lastOp.ret, 1, Len(lastOp.ret) - 1)
                ELSE Reverse(lastOp.ret)
         st == IF lastOp.done = 1
               THEN [store EXCEPT ![lastOp.name].models = ret]
               ELSE store
     IN Commit(h, st, factories, <<>>, Keep(st, held),
               Op("mutateResult", lastOp.name, "none", ret, <<how>>, lastOp.done))

\* find with any of its arguments given or left out
FindBy(name, key, val) ==
  /\ Idle
  /\ LET r == find(heap, store, name, key, val)
     IN Commit(heap, store, factories, <<>>, held,
               Op("find", name, r.err, r.ret, <<key, val>>, 0))

SortBy(name, key) ==
  /\ Idle
  /\ LET r == sortBy(heap, store, name, key)
     IN Commit(heap, store, factories, <<>>, held,
               Op("sortBy", name, r.err, r.ret, <<key>>, IF r.own THEN 1 ELSE 0))

QueryRecs ==
  {Rec(Num(i), TitleX, "none", FALSE) : i \in 1..MaxId}
    \cup {Rec(Num(i), TitleY, "none", FALSE) : i \in 1..2}
QueryPayloads == ArrayPayloads(QueryRecs, MaxPayload) \cup ValuePayloads
QueryIds == SeqsUpTo({Num(i) : i \in 1..MaxId} \cup {Str(<<2>>)}, MaxPayload)
QueryKeys == {Undef, KeyName("id"), KeyName("title"), Num(1), Num(2), Str(<<2>>)}
QueryVals == {Undef, Num(1), TitleX, TitleY}

NextQuery ==
  \/ Add("a")
  \/ AddFactory("b", "ShallowData")
  \/ \E name \in Names, pd \in QueryPayloads : Load(name, pd)
  \/ \E name \in Names, key \in QueryKeys, val \in QueryVals : All(name, key, val)
  \/ \E how \in {"push", "pop", "reverse"} : MutateResult(how)
  \/ \E name \in Names, key \in QueryKeys, val \in QueryVals : FindBy(name, key, val)
  \/ \E name \in Names, key \in {"", "id", "title"} : SortBy(name, key)
  \/ \E name \in Names, ids \in QueryIds : RemoveModels(name, ids)
  \/ \E name \in Names, key \in QueryKeys, val \in QueryVals : RemoveWhere(name, key, val)
  \/ Forget

SpecQuery == Init /\ [][NextQuery]_vars

(***************************************************************************)
(* SpecPayload: load called with every kind of payload: texts that are not *)
(* JSON (a bare word, a truncated array, object, number or string, a       *)
(* leading zero, an unquoted name), texts that parse to a number (with an  *)
(* exponent or without), a boolean, a string, null, a sequence or a keyed  *)
(* structure, and values that are no text.                                 *)
(***************************************************************************)
BadTexts ==
  {<<>>,
   Chars(<<"x">>),
   Chars(<<"[", "1">>),
   Chars(<<"[", "1", ",", "]">>),
   Chars(<<"0", "1">>),
   Chars(<<"1", "e">>),
   Chars(<<"\"", "a">>),
   Chars(<<"{", "i", "d", ":", "1", "}">>),
   Chars(<<"{", "\"", "i", "d", "\"", ":", "1">>)}

ScalarTexts ==
  {Chars(<<"1">>), Chars(<<"1", "2">>), Chars(<<"1", "e", "1">>),
   Chars(<<"t", "r", "u", "e">>), Chars(<<"f", "a", "l", "s", "e">>)}

OtherTexts ==
  {Chars(<<"\"", "x", "\"">>), Chars(<<"\"", "a", "1", ",", "\"">>),
   Chars(<<"n", "u", "l", "l">>)}

IdText(i) == <<"{", "\"", "i", "d", "\"", ":", Alphabet[Ch("0") + i]>>

StructureTexts ==
  {Chars(<<"[", "]">>), Chars(<<"{", "}">>), Chars(<<"[", "1", "]">>),
   Chars(<<"{", "\"", "i", "d", "\"", ":", "\"", "b", "\"", "}">>),
   Chars(IdText(2) \o <<",", "\"", "t", "i", "t", "l", "e", "\"", ":", "\"", "x", "\"", "}">>),
   Chars(<<"[">> \o IdText(1) \o <<"}", ",">> \o IdText(2) \o <<"}", "]">>),
   Chars(<<"[">> \o IdText(1)
           \o <<",", "\"", "o", "b", "j", "\"", ":", "{", "\"", "a", "\"", ":", "1", "}", "}", "]">>)}
    \cup {Chars(IdText(i) \o <<"}">>) : i \in 1..MaxId}

NonTexts == {Num(1), Bool(TRUE), Bool(FALSE), Undef, Null}

TextPayloads ==
  {[kind |-> "value", recs |-> <<>>, v |-> x] :
     x \in {Str(t) : t \in BadTexts \cup ScalarTexts \cup OtherTexts \cup StructureTexts}
             \cup NonTexts}

PayloadRecs == {Rec(Num(i), TitleY, "none", FALSE) : i \in 1..MaxId}

NextPayload ==
  \/ Add("a")
  \/ AddFactory("a", "ShallowData")
  \/ \E pd \in TextPayloads \cup SinglePayloads(PayloadRecs) : Load("a", pd)
  \/ \E id \in 1..MaxId : RemoveModels("a", <<Num(id)>>)
  \/ Forget

SpecPayload == Init /\ [][NextPayload]_vars

(***************************************************************************)
(* SpecCreate: createModelOfType called directly with zero or more         *)
(* arguments (plain objects with nested parts, instances), with and        *)
(* without a factory, next to loads of the same records.  The caller keeps *)
(* the arguments (payload) and the model returned (lastOp.ret).            *)
(***************************************************************************)
\* mutant: the new model is also put into the collection
CreateModelOfTypeStoring(name, recs) ==
  /\ Idle
  /\ LET b == BuildRecords(heap, recs, 1, <<>>)
         r == createModelOfType(b.h, factories, name, b.vs)
     IN Commit(r.h, [store EXCEPT ![name].models = Append(@, r.v.n)], factories,
               b.vs, held,
               Op("createModelOfType", name, "none", <<r.v.n>>, r.calls, 0))

CreateModelOfType(name, recs) ==
  /\ Idle
  /\ LET b == BuildRecords(heap, recs, 1, <<>>)
         r == createModelOfType(b.h, factories, name, b.vs)
     IN Commit(r.h, store, factories, b.vs, held,
               Op("createModelOfType", name, "none", <<r.v.n>>, r.calls, 0))

CreateRecs ==
  {Rec(Num(1), TitleX, "obj", FALSE),
   Rec(Num(2), Absent, "arr", FALSE),
   Rec(Absent, TitleY, "none", FALSE),
   Rec(Num(1), Null, "none", TRUE)}

NextCreate ==
  \/ Add("a")
  \/ AddFactory("a", "ShallowData")
  \/ RemoveFactory("a")
  \/ \E name \in Names, recs \in SeqsUpTo(CreateRecs, MaxPayload) :
       CreateModelOfType(name, recs)
  \/ \E pd \in SinglePayloads(CreateRecs) : Load("a", pd)
  \/ Forget

SpecCreate == Init /\ [][NextCreate]_vars

(***************************************************************************)
(* SpecPlain: createModelOfType without any factory, for a collection that *)
(* exists ("a") and for a name that was never added ("b"), with arguments  *)
(* of every kind: keyed structures, sequences, numbers, strings and null.  *)
(***************************************************************************)
RECURSIVE BuildArgs(_, _, _, _)
BuildArgs(h, pds, i, acc) ==
  IF i > Len(pds) THEN [h |-> h, vs |-> acc]
  ELSE LET b == BuildPayload(h, pds[i])
       IN BuildArgs(b.h, pds, i + 1, Append(acc, b.v))

\* createModelOfType(name, ...objs) for the arguments b the caller built
createdFrom(b, fac, name) ==
  [r |-> createModelOfType(b.h, fac, name, b.vs), vs |-> b.vs]

\* the call returns the model c.r.v; the caller keeps its arguments c.vs
Created(c, name) ==
  Commit(c.r.h, store, factories, c.vs, held,
         Op("createModelOfType", name, "none", <<c.r.v.n>>, c.r.calls, 0))

CreateModelOfTypeFrom(name, pds) ==
  /\ Idle
  /\ Created(createdFrom(BuildArgs(heap, pds, 1, <<>>), factories, name), name)

PlainRecs ==
  {Rec(Num(1), TitleX, "obj", FALSE),
   Rec(Num(2), Absent, "arr", FALSE),
   Rec(Absent, TitleY, "none", FALSE),
   Rec(Num(1), Null, "none", TRUE)}

PlainArgs ==
  SinglePayloads(PlainRecs)
    \cup {[kind |-> "array", recs |-> <<Rec(Num(2), TitleY, "none", FALSE)>>, v |-> Undef]}
    \cup ValuePayloads

NextPlain ==
  \/ Add("a")
  \/ \E name \in Names, pds \in SeqsUpTo(PlainArgs, MaxPayload) :
       CreateModelOfTypeFrom(name, pds)
  \/ \E pd \in SinglePayloads(PlainRecs) : Load("a", pd)
  \/ Forget

SpecPlain == Init /\ [][NextPlain]_vars


(***************************************************************************)
(* SpecLife: the lifecycle operations on two collections: add, clear,      *)
(* clearFactories, removeFactory and addFactory, next to loads of single   *)
(* records.                                                                *)
(***************************************************************************)
LifeRecs == {Rec(Num(i), Absent, "none", FALSE) : i \in 1..MaxId}

NextLife ==
  \/ \E name \in Names : Add(name)
  \/ Clear
  \/ ClearFactories
  \/ \E name \in Names : RemoveFactory(name)
  \/ \E factory \in FactoryArgs : AddFactory("a", factory)
  \/ \E name \in Names, pd \in SinglePayloads(LifeRecs) : Load(name, pd)
  \/ Forget

SpecLife == Init /\ [][NextLife]_vars

(***************************************************************************)
(* SpecSort: sortBy and all on a collection with numeric ids and numeric   *)
(* titles ("a") and on a collection with string ids and string titles      *)
(* ("b").                                                                  *)
(***************************************************************************)
SortStrIds == {<<1>>, <<1, 2>>, <<2>>}            \* "a", "ab", "b"

SortRecsA == {Rec(Num(i), Num(k), "none", FALSE) : i \in 1..MaxId, k \in {1, 2}}
SortRecsB == {Rec(Str(x), t, "none", FALSE) : x \in SortStrIds, t \in {TitleX, TitleY}}

NextSort ==
  \/ \E name \in Names : Add(name)
  \/ \E pd \in SinglePayloads(SortRecsA) : Load("a", pd)
  \/ \E pd \in SinglePayloads(SortRecsB) : Load("b", pd)
  \/ \E name \in Names, key \in {"", "id", "title"} : SortBy(name, key)
  \/ \E name \in Names, key \in {Undef, KeyName("id"), Str(<<1, 2>>)} :
       All(name, key, Undef)
  \/ \E how \in {"push", "pop", "reverse"} : MutateResult(how)
  \/ Forget

SpecSort == Init /\ [][NextSort]_vars

(***************************************************************************)
(* SpecSortKeys: sortBy on one collection with numeric ids whose records   *)
(* hold a title that is a number (2 or 10), a string ("x" or "y") or       *)
(* nothing: the titles of a collection are all numbers, all strings, or    *)
(* mixed, and any of the records may lack the title.                       *)
(***************************************************************************)
SortTitles == {Num(2), Num(10), TitleX, TitleY, Absent}

SortKeyRecs == {Rec(Num(i), t, "none", FALSE) : i \in 1..MaxId, t \in SortTitles}

NextSortKeys ==
  \/ Add("a")
  \/ \E pd \in SinglePayloads(SortKeyRecs) : Load("a", pd)
  \/ \E key \in {"", "id", "title"} : SortBy("a", key)
  \/ \E how \in {"push", "pop", "reverse"} : MutateResult(how)
  \/ Forget

SpecSortKeys == Init /\ [][NextSortKeys]_vars

(***************************************************************************)
(* SpecText: the caller loads JSON.stringify(v) for a record or a sequence *)
(* of records v, as the unit tests do, and keeps v.                        *)
(* JSON.stringify writes numbers in decimal, strings in quotes, null as    *)
(* null, an array as [v,...] and an object as {"name":v,...} with its own  *)
(* properties in insertion order (the order of KeySeq), leaving out the    *)
(* properties that are undefined.  It is the caller's, not the program's:  *)
(* the values the caller writes hold natural numbers and strings without a *)
(* quote (a sign or an escaped quote is no text over Alphabet).            *)
(***************************************************************************)
RECURSIVE Digits(_)
Digits(n) ==
  IF n < 10 THEN <<Ch("0") + n>>
  ELSE Digits(n \div 10) \o <<Ch("0") + (n % 10)>>

RECURSIVE Stringify(_, _), StringifyElems(_, _, _), StringifyProps(_, _, _, _)
Stringify(h, v) ==
  IF v.t = "null" THEN Chars(<<"n", "u", "l", "l">>)
  ELSE IF v.t = "number" THEN Digits(v.n)
  ELSE IF v.t = "boolean"
  THEN (IF v.n = 1 THEN Chars(<<"t", "r", "u", "e">>) ELSE Chars(<<"f", "a", "l", "s", "e">>))
  ELSE IF v.t = "string" THEN <<Ch("\"")>> \o v.s \o <<Ch("\"")>>
  ELSE IF v.t # "ref" THEN <<>>
  ELSE IF h[v.n].kind = "array"
  THEN <<Ch("[")>> \o StringifyElems(h, h[v.n].elems, 1) \o <<Ch("]")>>
  ELSE <<Ch("{")>> \o StringifyProps(h, v.n, 1, TRUE) \o <<Ch("}")>>

StringifyElems(h, elems, i) ==
  IF i > Len(elems) THEN <<>>
  ELSE (IF i > 1 THEN <<Ch(",")>> ELSE <<>>)
         \o (IF elems[i].t \in {"undefined", "absent"}
             THEN Chars(<<"n", "u", "l", "l">>) ELSE Stringify(h, elems[i]))
         \o StringifyElems(h, elems, i + 1)

StringifyProps(h, obj, i, first) ==
  IF i > Len(KeySeq) THEN <<>>
  ELSE IF h[obj].props[KeySeq[i]].t \in {"undefined", "absent"}
  THEN StringifyProps(h, obj, i + 1, first)
  ELSE (IF first THEN <<>> ELSE <<Ch(",")>>)
         \o <<Ch("\"")>> \o KeyName(KeySeq[i]).s \o <<Ch("\""), Ch(":")>>
         \o Stringify(h, h[obj].props[KeySeq[i]])
         \o StringifyProps(h, obj, i + 1, FALSE)

\* store.load(name, JSON.stringify(v)); lastOp.args holds the text
LoadJSON(name, pd) ==
  /\ Idle
  /\ LET b == BuildPayload(heap, pd)
         text == Str(Stringify(b.h, b.v))
         r == load(b.h, store, factories, name, text)
     IN Commit(r.h, r.store, factories, <<b.v>>, Keep(r.store, held),
               Op("load", name, r.err, <<>>, <<text>>, r.done))

TextRecs ==
  {Rec(Num(1), TitleX, "none", FALSE),
   Rec(Num(1), TitleY, "obj", FALSE),
   Rec(Num(2), Null, "arr", FALSE),
   Rec(Absent, TitleX, "none", FALSE),
   Rec(Str(Chars(<<"a", "1">>)), Str(Chars(<<"x", ",", "1", "]">>)), "none", FALSE)}

TextValues == ArrayPayloads(TextRecs, MaxPayload) \cup SinglePayloads(TextRecs)

NextText ==
  \/ Add("a")
  \/ AddFactory("a", "ShallowData")
  \/ \E pd \in TextValues : LoadJSON("a", pd)
  \/ Forget

SpecText == Init /\ [][NextText]_vars

(***************************************************************************)
(* SpecLoop: the calls taken one pass of a loop at a time.  While a call   *)
(* is inside a loop lastOp.op names the loop:                              *)
(*   "_getInsertIndex.while", "_binarySearchIndex.while":                  *)
(*        lastOp.ret = <<beg, end, passes made>>, kept when the call       *)
(*        returns with lastOp.done the index (as in SpecSearch);           *)
(*   "load.map":     lastOp.ret the items mapped so far;                   *)
(*   "load.forEach": lastOp.ret the mapped items, lastOp.done the number   *)
(*        of items pushed;                                                 *)
(*   "removeModels.for", "removeWhere.for": payload the models to remove,  *)
(*        lastOp.ret the records deleted, lastOp.done the models handled.  *)
(* JavaScript runs a call to completion: nothing else happens while a      *)
(* call is inside a loop, and the next pass is always taken.  The passes   *)
(* leave the heap as the code leaves it; what the call no longer refers to *)
(* is collected when the caller goes on (Return).                          *)
(***************************************************************************)
InLoop ==
  lastOp.op \in {"_getInsertIndex.while", "_binarySearchIndex.while",
                 "load.map", "load.forEach", "removeModels.for", "removeWhere.for"}

\* mutant: the upper half is dropped without the middle element
InsertIterationStuck(h, sortedArray, value, key, beg, end) ==
  LET mid == beg + ((end - beg) \div 2)
      checkedItem == Ref(sortedArray[mid + 1])
  IN IF Less(h, value, Get(h, checkedItem, key)) THEN <<beg, mid>> ELSE <<mid + 1, end>>

\* one pass of the while loop of _getInsertIndex: the new <<beg, end>>
InsertIteration(h, sortedArray, value, key, beg, end) ==
  LET mid == beg + ((end - beg) \div 2)
      checkedItem == Ref(sortedArray[mid + 1])
  IN IF Less(h, value, Get(h, checkedItem, key)) THEN <<beg, mid - 1>> ELSE <<mid + 1, end>>

\* one pass of the while loop of _binarySearchIndex: the new <<beg, end>>
\* and the index found (-1: go on)
SearchIteration(h, sortedArray, value, key, beg, end) ==
  LET mid == beg + ((end - beg) \div 2)
      checkedItem == Ref(sortedArray[mid + 1])
  IN IF Less(h, Get(h, checkedItem, key), value) THEN <<mid + 1, end, -1>>
     ELSE IF Less(h, value, Get(h, checkedItem, key)) THEN <<beg, mid - 1, -1>>
     ELSE <<beg, end, mid>>

GetInsertIndexEnter(value) ==
  /\ Idle
  /\ store["a"].defined
  /\ LET sortedArray == store["a"].models
     IN lastOp' =
          IF value = Undef
          THEN Op("_getInsertIndex", "a", "UndefinedValue", <<>>, <<value>>, -1)
          ELSE IF Len(sortedArray) = 0
          THEN Op("_getInsertIndex", "a", "none", <<>>, <<value>>, 0)
          ELSE IF TypeOf(Get(heap, Ref(sortedArray[1]), "id")) # TypeOf(value)
          THEN Op("_getInsertIndex", "a", "TypeMismatch", <<>>, <<value>>, -1)
          ELSE Op("_getInsertIndex.while", "a", "none",
                  <<0, Len(sortedArray) - 1, 0>>, <<value>>, 0)
  /\ UNCHANGED <<store, factories, heap, payload, held>>

GetInsertIndexIterate ==
  /\ lastOp.op = "_getInsertIndex.while"
  /\ LET beg == lastOp.ret[1]
         end == lastOp.ret[2]
     IN lastOp' =
          IF beg <= end
          THEN [lastOp EXCEPT !.ret = InsertIteration(heap, store["a"].models,
                                        lastOp.args[1], "id", beg, end)
                                      \o <<lastOp.ret[3] + 1>>]
          ELSE [lastOp EXCEPT !.op = "_getInsertIndex", !.done = end + 1]
  /\ UNCHANGED <<store, factories, heap, payload, held>>

BinarySearchIndexEnter(value) ==
  /\ Idle
  /\ store["a"].defined
  /\ LET sortedArray == store["a"].models
     IN lastOp' =
          IF value = Undef
          THEN Op("_binarySearchIndex", "a", "UndefinedValue", <<>>, <<value>>, -2)
          ELSE IF Len(sortedArray) = 0
                  \/ TypeOf(Get(heap, Ref(sortedArray[1]), "id")) # TypeOf(value)
          THEN Op("_binarySearchIndex", "a", "none", <<>>, <<value>>, -2)
          ELSE Op("_binarySearchIndex.while", "a", "none",
                  <<0, Len(sortedArray) - 1, 0>>, <<value>>, 0)
  /\ UNCHANGED <<store, factories, heap, payload, held>>

\* s: the outcome of the pass
SearchPassed(s) ==
  IF s[3] # -1
  THEN [lastOp EXCEPT !.op = "_binarySearchIndex", !.done = s[3],
                      !.ret = <<s[1], s[2], lastOp.ret[3] + 1>>]
  ELSE [lastOp EXCEPT !.ret = <<s[1], s[2], lastOp.ret[3] + 1>>]

BinarySearchIndexIterate ==
  /\ lastOp.op = "_binarySearchIndex.while"
  /\ LET beg == lastOp.ret[1]
         end == lastOp.ret[2]
     IN lastOp' =
          IF beg <= end
          THEN SearchPassed(SearchIteration(heap, store["a"].models,
                                            lastOp.args[1], "id", beg, end))
          ELSE [lastOp EXCEPT !.op = "_binarySearchIndex", !.done = -1]
  /\ UNCHANGED <<store, factories, heap, payload, held>>

\* load from JSON.parse to its map: p the payload parsed (p.ok = FALSE:
\* JSON.parse threw), `given` the payload the caller passed.  Inside the
\* loops `payload` is the variable of load, which holds the parsed value.
LoadParsedEntered(p, given, name) ==
  IF ~p.ok
  THEN Commit(p.h, store, factories, <<given>>, held,
              Op("load", name, "MalformedJSON", <<>>, <<>>, 0))
  ELSE IF TypeOf(p.v) # "object"
  THEN Commit(p.h, store, factories, <<given>>, held,
              Op("load", name, "InvalidPayload", <<>>, <<>>, 0))
  ELSE IF Len(ElemsOf(p.h, <<p.v>>)) = 0
  THEN Commit(p.h, store, factories, <<given>>, held,
              Op("load", name, "none", <<>>, <<>>, 0))
  ELSE Commit(p.h, store, factories, <<p.v>>, held,
              Op("load.map", name, "none", <<>>, <<>>, 0))

\* load up to its map: b the payload built by the caller
LoadEntered(b, name) ==
  IF ~store[name].defined
  THEN Commit(b.h, store, factories, <<b.v>>, held,
              Op("load", name, "UnknownCollection", <<>>, <<>>, 0))
  ELSE LoadParsedEntered(IF TypeOf(b.v) = "string" THEN ParseJSON(b.h, b.v.s)
                         ELSE Parsed(b.h, b.v, <<>>),
                         b.v, name)

LoadEnter(name, pd) ==
  /\ Idle
  /\ LoadEntered(BuildPayload(heap, pd), name)

\* m: the payload element mapped by this pass
LoadMapped(m, last) ==
  /\ heap' = m.h
  /\ lastOp' = Op(IF last THEN "load.forEach" ELSE "load.map", lastOp.name, "none",
                  Append(lastOp.ret, m.items[1].n), <<>>, 0)
  /\ UNCHANGED <<store, factories, payload, held>>

LoadMap ==
  /\ lastOp.op = "load.map"
  /\ LET elems == ElemsOf(heap, payload)
         i == Len(lastOp.ret) + 1
     IN \E m \in {mapModels(heap, factories, lastOp.name, <<elems[i]>>, 1, <<>>)} :
          LoadMapped(m, i = Len(elems))

\* r: the outcome of payload.forEach's callback for item i
LoadPushed(r, i) ==
  /\ heap' = r.h
  /\ store' = [store EXCEPT ![lastOp.name].models = r.collection]
  /\ lastOp' = IF r.err # "none"
               THEN Op("load", lastOp.name, r.err, <<>>, <<>>, i - 1)
               ELSE IF i = Len(lastOp.ret)
               THEN Op("load", lastOp.name, "none", <<>>, <<>>, i)
               ELSE Op("load.forEach", lastOp.name, "none", lastOp.ret, <<>>, i)
  /\ UNCHANGED <<factories, payload, held>>

LoadPush ==
  /\ lastOp.op = "load.forEach"
  /\ \E r \in {pushLoop(heap, store[lastOp.name].models,
                         <<Ref(lastOp.ret[lastOp.done + 1])>>, 1)} :
       LoadPushed(r, lastOp.done + 1)

\* removeModels up to its loop: b the models built by the caller
RemoveEntered(b, name, ids) ==
  IF ~store[name].defined
  THEN Commit(b.h, store, factories, <<>>, held,
              Op("removeModels", name, "UnknownCollection", <<>>, ids, 0))
  ELSE IF Len(b.vs) = 0
  THEN Commit(b.h, store, factories, <<>>, held,
              Op("removeModels", name, "none", <<>>, ids, 0))
  ELSE Commit(b.h, store, factories, b.vs, held,
              Op("removeModels.for", name, "none", <<>>, ids, 0))

RemoveModelsEnter(name, ids) ==
  /\ Idle
  /\ RemoveEntered(BuildRecords(heap, [i \in 1..Len(ids) |->
                     Rec(IF ids[i] = Undef THEN Absent ELSE ids[i], Absent, "none", FALSE)],
                     1, <<>>),
                   name, ids)

\* removeWhere up to the loop of removeModels: models the outcome of all
RemoveWhereEntered(models, name, key, val) ==
  IF models.err # "none"
  THEN Commit(heap, store, factories, <<>>, held,
              Op("removeWhere", name, models.err, <<>>, <<key, val>>, 0))
  ELSE IF Len(models.ret) = 0
  THEN Commit(heap, store, factories, <<>>, held,
              Op("removeWhere", name, "none", <<>>, <<key, val>>, 0))
  ELSE Commit(heap, store, factories, Refs(models.ret), held,
              Op("removeWhere.for", name, "none", <<>>, <<key, val>>, 0))

RemoveWhereEnter(name, key, val) ==
  /\ Idle
  /\ IF key = Undef /\ val = Undef
     THEN Commit(heap, store, factories, <<>>, held,
                 Op("removeWhere", name, "AmbiguousRemoval", <<>>, <<key, val>>, 0))
     ELSE RemoveWhereEntered(all(heap, store, name, key, val), name, key, val)

\* r: the outcome of the body of the for loop for models[i]
Removed(r, i, op) ==
  /\ store' = [store EXCEPT ![lastOp.name].models = r.collection]
  /\ lastOp' = IF r.err # "none"
               THEN Op(op, lastOp.name, r.err, <<>>, lastOp.args, i - 1)
               ELSE Op(IF i = Len(payload) THEN op ELSE lastOp.op, lastOp.name, "none",
                       lastOp.ret \o r.deleted, lastOp.args, i)
  /\ UNCHANGED <<heap, factories, payload, held>>

RemoveStep ==
  /\ lastOp.op \in {"removeModels.for", "removeWhere.for"}
  /\ \E r \in {removeLoop(heap, store[lastOp.name].models,
                          <<payload[lastOp.done + 1]>>, 1, <<>>)} :
       Removed(r, lastOp.done + 1,
               IF lastOp.op = "removeModels.for" THEN "removeModels" ELSE "removeWhere")

\* the call has returned or thrown, and the caller goes on
Return == ~InLoop /\ Forget

LoopRecs == {Rec(Num(i), Absent, "none", FALSE) : i \in 1..MaxId}

\* payloads whose second record makes _pushModels throw
LoopThrows ==
  {[kind |-> "array", v |-> Undef,
    recs |-> <<Rec(Num(1), Absent, "none", FALSE), Rec(id, Absent, "none", FALSE)>>] :
     id \in {Str(<<2>>), Absent}}

\* the payloads of the loads: arrays of records, the throwing ones, values
\* that are no objects (the string "x" is no JSON text) and one JSON text
LoopPayloads ==
  ArrayPayloads(LoopRecs, MaxPayload) \cup LoopThrows \cup ValuePayloads
    \cup {[kind |-> "value", recs |-> <<>>,
           v |-> Str(Chars(<<"[">> \o IdText(2) \o <<"}", "]">>))]}

LoopIds == SeqsUpTo({Num(1), Num(MaxId), Undef}, MaxPayload)

NextLoop ==
  \/ Add("a")
  \/ \E pd \in LoopPayloads : LoadEnter("a", pd)
  \/ LoadMap
  \/ LoadPush
  \/ \E ids \in LoopIds : RemoveModelsEnter("a", ids)
  \/ \E key \in {Undef, Num(1), Num(2)} : RemoveWhereEnter("a", key, Undef)
  \/ RemoveStep
  \/ \E value \in IndexNums \cup {Str(<<2>>), Undef} : GetInsertIndexEnter(value)
  \/ GetInsertIndexIterate
  \/ \E value \in IndexNums \cup {Str(<<2>>), Undef} : BinarySearchIndexEnter(value)
  \/ BinarySearchIndexIterate
  \/ Return

SpecLoop == Init /\ [][NextLoop]_vars

\* the next pass of the loop the call is in (at most one is enabled)
Pass ==
  \/ GetInsertIndexIterate
  \/ BinarySearchIndexIterate
  \/ LoadMap
  \/ LoadPush
  \/ RemoveStep

\* the call under way takes its next pass
SpecLoopFair == SpecLoop /\ WF_vars(Pass)

(***************************************************************************)
(* SpecNested: records with one id whose field `obj` holds nothing, a      *)
(* keyed structure ({a: 1} or {title: "x"}) or a sequence ([{a: 1}] or     *)
(* []), loaded one after the other, with and without a factory.            *)
(***************************************************************************)
NestedChoices == {"none", "obj", "other", "arr", "empty"}

NestedRecs ==
  {Rec(Num(1), t, c, FALSE) : t \in {Absent, TitleX}, c \in NestedChoices}
    \cup {Rec(Num(i), Absent, "obj", FALSE) : i \in 2..MaxId}

NextNested ==
  \/ Add("a")
  \/ AddFactory("a", "ShallowData")
  \/ \E pd \in SinglePayloads(NestedRecs) : Load("a", pd)
  \/ \E a \in 1..Len(heap) : MutatePayload(a)
  \/ Forget

SpecNested == Init /\ [][NextNested]_vars

(***************************************************************************)
(* SpecBatch: one collection without a factory, loaded with sequences of   *)
(* up to MaxPayload records (ids repeated or not, the empty sequence too)  *)
(* and with single records.                                                *)
(***************************************************************************)
BatchedRecs ==
  {Rec(Num(1), TitleX, "none", FALSE),
   Rec(Num(1), TitleY, "obj", FALSE),
   Rec(Num(2), Null, "arr", FALSE),
   Rec(Num(2), TitleX, "none", FALSE)}

NextBatch ==
  \/ Add("a")
  \/ \E pd \in ArrayPayloads(BatchedRecs, MaxPayload) : Load("a", pd)
  \/ \E pd \in SinglePayloads(BatchedRecs) : Load("a", pd)
  \/ Forget

SpecBatch == Init /\ [][NextBatch]_vars

(***************************************************************************)
(* SpecRollback: one collection, with the factory or without, loaded with  *)
(* sequences of up to MaxPayload records among which are a record with a   *)
(* string id and a record without id, so that a load may fail at any of    *)
(* its records after inserting or merging those before it.                 *)
(***************************************************************************)
RollbackRecs ==
  {Rec(Num(1), TitleX, "none", FALSE),
   Rec(Num(1), TitleY, "obj", FALSE),
   Rec(Num(2), TitleX, "none", FALSE),
   Rec(Str(<<2>>), Absent, "none", FALSE),
   Rec(Absent, TitleY, "none", FALSE)}

NextRollback ==
  \/ Add("a")
  \/ AddFactory("a", "ShallowData")
  \/ \E pd \in ArrayPayloads(RollbackRecs, MaxPayload) : Load("a", pd)
  \/ Forget

SpecRollback == Init /\ [][NextRollback]_vars

(***************************************************************************)
(* SpecOrder: one collection without a factory, loaded with sequences of   *)
(* up to MaxPayload records of pairwise distinct ids: the numbers          *)
(* 1..MaxId and the string "b".                                            *)
(***************************************************************************)
OrderedRecs ==
  {Rec(Num(i), IF i = 1 THEN TitleX ELSE Absent, "none", FALSE) : i \in 1..MaxId}
    \cup {Rec(Str(<<2>>), Absent, "none", FALSE)}

Injective(rs) == \A i, j \in 1..Len(rs) : i # j => rs[i].id # rs[j].id

OrderedPayloads == {pd \in ArrayPayloads(OrderedRecs, MaxPayload) : Injective(pd.recs)}

NextOrder ==
  \/ Add("a")
  \/ \E pd \in OrderedPayloads : Load("a", pd)
  \/ Forget

SpecOrder == Init /\ [][NextOrder]_vars

(***************************************************************************)
(* SpecIsolated: two collections, each with the factory or without, and    *)
(* every operation that takes a collection name called with either name.   *)
(* The caller may load the payload it still holds into a collection again. *)
(***************************************************************************)
\* the caller loads the payload of the last load into the named collection
LoadHeldInto(name) ==
  /\ lastOp.op = "load"
  /\ LET r == load(heap, store, factories, name, payload[1])
     IN Commit(r.h, r.store, factories, payload, held,
               Op("load", name, r.err, <<>>, <<>>, r.done))

IsolatedRecs ==
  {Rec(Num(1), TitleX, "none", FALSE),
   Rec(Num(2), TitleY, "obj", FALSE),
   Rec(Num(1), TitleY, "none", TRUE)}

NextIsolated ==
  \/ \E name \in Names : Add(name)
  \/ \E name \in Names : AddFactory(name, "ShallowData")
  \/ \E name \in Names, pd \in SinglePayloads(IsolatedRecs) : Load(name, pd)
  \/ \E name \in Names : LoadHeldInto(name)
  \/ \E name \in Names, id \in {Num(1), Num(2)} : RemoveModels(name, <<id>>)
  \/ \E name \in Names : RemoveWhere(name, KeyName("title"), TitleY)
  \/ \E name \in Names, key \in {Undef, Num(1)} : All(name, key, Undef)
  \/ \E name \in Names : FindBy(name, Num(2), Undef)
  \/ \E name \in Names : SortBy(name, "title")
  \/ Forget

SpecIsolated == Init /\ [][NextIsolated]_vars

(***************************************************************************)
(* SpecPush: _pushModels(name, payload) called directly on collection "a", *)
(* the first argument being the collection itself or its name.             *)
(***************************************************************************)
\* typeof type: no variable `type` is declared in _pushModels or around it
TypeOfType == "undefined"

\* a collection name as a JavaScript string
NameStr(name) == IF name = "a" THEN Str(<<1>>) ELSE Str(<<2>>)

\* payload.forEach with the string s as `collection`: s[0] is a string of one
\* character, whose `id` is undefined, and a string has no splice
pushIntoString(h, st, s, items) ==
  IF Len(items) = 0 THEN [h |-> h, store |-> st, err |-> "none", done |-> 0]
  ELSE LET value == Get(h, items[1], "id")
       IN IF value = TypeError
          THEN [h |-> h, store |-> st, err |-> "TypeError", done |-> 0]
          ELSE IF value = Undef
          THEN [h |-> h, store |-> st, err |-> "UndefinedValue", done |-> 0]
          ELSE IF Len(s.s) # 0 /\ TypeOf(Undef) # TypeOf(value)
          THEN [h |-> h, store |-> st, err |-> "TypeMismatch", done |-> 0]
          ELSE [h |-> h, store |-> st, err |-> "TypeError", done |-> 0]

\* payload.forEach with the collection of `name` as `collection`
pushIntoCollection(h, st, name, items) ==
  LET r == pushModels(h, st[name].models, items)
  IN [h |-> r.h, store |-> [st EXCEPT ![name].models = r.collection],
      err |-> r.err, done |-> r.done]

\* _pushModels(first, pl): first is the name of the collection when byName,
\* the collection itself otherwise
pushModelsOf(h, st, name, byName, pl) ==
  IF TypeOf(pl) # "object"
  THEN [h |-> h, store |-> st, err |-> "NotObject", done |-> 0]
  ELSE LET items == IF IsArray(h, pl) THEN h[pl.n].elems ELSE <<pl>>
       IN IF TypeOfType = "string"
          THEN IF byName THEN pushIntoCollection(h, st, name, items)
               ELSE [h |-> h, store |-> st, err |-> "TypeError", done |-> 0]
          ELSE IF byName THEN pushIntoString(h, st, NameStr(name), items)
               ELSE pushIntoCollection(h, st, name, items)

PushModels(name, byName, pd) ==
  /\ Idle
  /\ store[name].defined
  /\ LET b == BuildPayload(heap, pd)
         r == pushModelsOf(b.h, store, name, byName, b.v)
     IN Commit(r.h, r.store, factories, <<b.v>>, held,
               Op("_pushModels", name, r.err, <<>>,
                  IF byName THEN <<NameStr(name)>> ELSE <<>>, r.done))

PushRecs ==
  {Rec(Num(1), TitleX, "none", FALSE), Rec(Num(2), TitleY, "obj", FALSE),
   Rec(Num(1), TitleY, "none", FALSE), Rec(Absent, TitleX, "none", FALSE)}

PushPayloads ==
  ArrayPayloads(PushRecs, MaxPayload) \cup SinglePayloads(PushRecs)
    \cup {[kind |-> "value", recs |-> <<>>, v |-> Num(1)]}

NextPush ==
  \/ Add("a")
  \/ \E byName \in BOOLEAN, pd \in PushPayloads : PushModels("a", byName, pd)
  \/ Forget

SpecPush == Init /\ [][NextPush]_vars

(***************************************************************************)
(* Helpers of the properties.                                              *)
(***************************************************************************)
IdOf(h, a) == Get(h, Ref(a), "id")
IdsOf(h, addrs) == [i \in 1..Len(addrs) |-> IdOf(h, addrs[i])]

PayloadElems == ElemsOf(heap, payload)
\* the id a payload element hands to the record made of it: none (undefined)
\* for an element that is no object
ElemId(h, v) == IF v.t = "ref" THEN Get(h, v, "id") ELSE Undef

PayloadIds == [i \in 1..Len(PayloadElems) |-> ElemId(heap, PayloadElems[i])]

\* the value of v with everything it holds, without addresses
RECURSIVE DeepVal(_, _)
DeepVal(h, v) ==
  IF v.t # "ref"
  THEN [val |-> v, kind |-> "value", props |-> <<>>, elems |-> <<>>]
  ELSE [val |-> Undef, kind |-> h[v.n].kind,
        props |-> [k \in Keys |-> DeepVal(h, h[v.n].props[k])],
        elems |-> [i \in 1..Len(h[v.n].elems) |-> DeepVal(h, h[v.n].elems[i])]]

\* the records of every collection, in order, by value
StoreImage(h, st) ==
  [n \in Names |-> [i \in 1..Len(st[n].models) |-> DeepVal(h, Ref(st[n].models[i]))]]

Range(seq) == {seq[i] : i \in 1..Len(seq)}

\* the record of a collection with a given id
WithId(h, addrs, id) == CHOOSE a \in Range(addrs) : IdOf(h, a) = id
HasId(h, addrs, id) == \E a \in Range(addrs) : IdOf(h, a) = id

StrictlyAscending(h, addrs) ==
  \A i \in 1..(Len(addrs) - 1) : Less(h, IdOf(h, addrs[i]), IdOf(h, addrs[i + 1]))

(***************************************************************************)
(* C1: in every reachable state, whether the calls returned or threw,      *)
(* every collection is strictly ascending by id under the order of its id  *)
(* type, hence holds no id twice.                                          *)
(***************************************************************************)
C1_SortedNoDuplicates ==
  \A name \in Names :
    /\ StrictlyAscending(heap, store[name].models)
    /\ \A i, j \in 1..Len(store[name].models) :
         i # j => IdOf(heap, store[name].models[i]) # IdOf(heap, store[name].models[j])

\* a load of two records given in descending order filled the collection
C1_Witness ==
  /\ lastOp.op = "load" /\ lastOp.err = "none" /\ lastOp.done = 2
  /\ Len(PayloadIds) = 2 /\ Less(heap, PayloadIds[2], PayloadIds[1])
  /\ Len(store["a"].models) = 3

(***************************************************************************)
(* C6 (as claimed): removeModels returns the stored records whose id is    *)
(* the id of some input record, in input order, and leaves the collection  *)
(* without them, the others in their order.                                *)
(* Fails where removeModels throws instead (see C7).                       *)
(***************************************************************************)
RECURSIVE ExpectedRemoved(_, _)
ExpectedRemoved(ids, present) ==
  IF ids = <<>> THEN <<>>
  ELSE IF Head(ids) \in present
  THEN <<Head(ids)>> \o ExpectedRemoved(Tail(ids), present \ {Head(ids)})
  ELSE ExpectedRemoved(Tail(ids), present)

RemovalAsClaimed ==
  LET name == lastOp'.name
      before == IdsOf(heap, store[name].models)
      ids == lastOp'.args
      notGiven(v) == v \notin Range(ids)
  IN /\ lastOp'.err = "none"
     /\ IdsOf(heap', lastOp'.ret) = ExpectedRemoved(ids, Range(before))
     /\ IdsOf(heap', store'[name].models) = SelectSeq(before, notGiven)

C6_RemoveModelsRoundTrip ==
  [][(lastOp'.op = "removeModels" /\ store[lastOp'.name].defined
        /\ \A i \in 1..Len(lastOp'.args) : lastOp'.args[i] # Undef)
       => RemovalAsClaimed]_vars

(***************************************************************************)
(* C7 (as claimed): for every collection state and every list of records   *)
(* with ids, removeModels completes without error.                         *)
(* Fails: on an empty collection, or with an id of another type, the code  *)
(* reads `.idx` of undefined.                                              *)
(***************************************************************************)
C7_RemoveModelsNeverThrows ==
  (lastOp.op = "removeModels" /\ store[lastOp.name].defined
     /\ \A i \in 1..Len(lastOp.args) : lastOp.args[i] # Undef)
    => lastOp.err = "none"

(***************************************************************************)
(* C9: in every reachable state the records of a collection all have a     *)
(* defined id, all numbers or all strings.  A load returns normally only   *)
(* if every record of the payload has an id of the collection's type; it   *)
(* fails with UndefinedValue at the first record without an id and with    *)
(* TypeMismatch at the first record whose id has another type than the ids *)
(* of the non-empty collection, and that record is not stored.             *)
(***************************************************************************)
OneIdType(h, addrs) ==
  \A i \in 1..Len(addrs) :
    /\ TypeOf(IdOf(h, addrs[i])) \in {"number", "string"}
    /\ TypeOf(IdOf(h, addrs[i])) = TypeOf(IdOf(h, addrs[1]))

LoadOutcomeByIds ==
  LET collection == store[lastOp.name].models
      k == lastOp.done + 1
  IN /\ lastOp.err \in {"none", "UndefinedValue", "TypeMismatch"}
     /\ lastOp.err = "none" =>
          /\ lastOp.done = Len(PayloadElems)
          /\ \A i \in 1..Len(PayloadIds) :
               /\ PayloadIds[i] # Undef
               /\ TypeOf(PayloadIds[i]) = TypeOf(IdOf(heap, collection[1]))
     /\ lastOp.err # "none" =>
          /\ k <= Len(PayloadElems)
          /\ ~(PayloadElems[k].t = "ref" /\ InSeq(collection, PayloadElems[k].n))
     /\ lastOp.err = "UndefinedValue" <=>
          (k <= Len(PayloadElems) /\ PayloadIds[k] = Undef)
     /\ lastOp.err = "TypeMismatch" <=>
          /\ k <= Len(PayloadElems)
          /\ PayloadIds[k] # Undef
          /\ collection # <<>>
          /\ TypeOf(PayloadIds[k]) # TypeOf(IdOf(heap, collection[1]))

C9_OneDefinedIdType ==
  /\ \A name \in Names : OneIdType(heap, store[name].models)
  /\ (lastOp.op = "load" /\ store[lastOp.name].defined /\ PayloadElems # <<>>)
       => LoadOutcomeByIds

\* both failures have happened on a collection holding a record
C9_Witness ==
  /\ lastOp.op = "load" /\ lastOp.err = "TypeMismatch" /\ lastOp.done = 1
  /\ Len(store["a"].models) = 2
  /\ PayloadIds[2].t = "string"

(***************************************************************************)
(* C2 (as claimed): when a load that returns carries records of pairwise   *)
(* distinct ids, the collection grows only by the new ids, and each record *)
(* whose id was already stored ends with every field of the incoming       *)
(* record at the incoming value and every other field at its old value.    *)
(* Fails for a field that is null: deepCopy turns null into {} (see C13).  *)
(***************************************************************************)
DistinctIds(ids) == \A i, j \in 1..Len(ids) : i # j => ids[i] # ids[j]

MergedAsClaimed(hOld, old, hNew, new, incoming) ==
  \A k \in Keys :
    IF hNew[incoming].props[k] # Absent
    THEN DeepVal(hNew, hNew[new].props[k]) = DeepVal(hNew, hNew[incoming].props[k])
    ELSE DeepVal(hNew, hNew[new].props[k]) = DeepVal(hOld, hOld[old].props[k])

LoadMergesAsClaimed ==
  LET name == lastOp'.name
      before == store[name].models
      after == store'[name].models
      elems == ElemsOf(heap', payload')
      ids == [i \in 1..Len(elems) |-> ElemId(heap', elems[i])]
  IN DistinctIds(ids) =>
       /\ Len(after) = Len(before)
            + Cardinality({i \in 1..Len(ids) : ~HasId(heap, before, ids[i])})
       /\ \A i \in 1..Len(ids) :
            HasId(heap, before, ids[i]) =>
              MergedAsClaimed(heap, WithId(heap, before, ids[i]),
                              heap', WithId(heap', after, ids[i]), elems[i].n)

C2_MergeFieldwise ==
  [][(lastOp'.op = "load" /\ lastOp'.err = "none" /\ store[lastOp'.name].defined)
       => LoadMergesAsClaimed]_vars

(***************************************************************************)
(* C3: while a record the caller found stays in its collection, find by    *)
(* its id returns that very object, whatever was loaded since.             *)
(***************************************************************************)
C3_SameObjectUntilRemoved ==
  held.live =>
    find(heap, store, held.name, held.id, Undef) = [err |-> "none", ret |-> <<held.ref>>]

\* an instance of the factory carrying the id of the held record was merged
C3_Witness ==
  /\ held.live
  /\ lastOp.op = "load" /\ lastOp.err = "none" /\ lastOp.done = 1
  /\ factories[lastOp.name] = "ShallowData"
  /\ PayloadIds = <<held.id>>
  /\ heap[PayloadElems[1].n].proto = "ShallowData"
  /\ PayloadElems[1].n # held.ref
  /\ heap[held.ref].props["title"] = TitleY

(***************************************************************************)
(* C4: when no factory is bound, changing any part of the payload after    *)
(* the load changes no field of any stored record.                         *)
(***************************************************************************)
C4_PayloadNotShared ==
  [][(lastOp'.op = "mutate" /\ factories[lastOp'.name] = "none")
       => StoreImage(heap', store') = StoreImage(heap, store)]_vars

\* the nested structure of the payload was changed after it was stored
C4_Witness ==
  /\ lastOp.op = "mutate"
  /\ Len(store["a"].models) = 1
  /\ Len(PayloadElems) = 1
  /\ Get(heap, PayloadElems[1], "obj") = Ref(lastOp.args[1])
  /\ Get(heap, Ref(lastOp.args[1]), "a") = Num(2)
  /\ Get(heap, Get(heap, Ref(store["a"].models[1]), "obj"), "a") = Num(1)

(***************************************************************************)
(* C5: without a factory, loading the same payload a second time leaves    *)
(* the collection with the same records and field values.                  *)
(***************************************************************************)
C5_LoadIdempotent ==
  [][(lastOp'.op = "reload" /\ factories[lastOp'.name] = "none")
       => StoreImage(heap', store') = StoreImage(heap, store)]_vars

\* a payload of two records with one id was loaded twice
C5_Witness ==
  /\ lastOp.op = "reload" /\ lastOp.err = "none" /\ lastOp.done = 2
  /\ factories[lastOp.name] = "none"
  /\ Len(PayloadIds) = 2 /\ PayloadIds[1] = PayloadIds[2]
  /\ Len(store["a"].models) = 1
  /\ Get(heap, PayloadElems[1], "title") # Get(heap, PayloadElems[2], "title")

(***************************************************************************)
(* C8: a load that fails at record k with TypeMismatch or UndefinedValue   *)
(* is not rolled back: the collection holds the ids it held plus the ids   *)
(* of the records before k, those records' fields are in effect, and       *)
(* nothing of record k or of a later record is applied.                    *)
(***************************************************************************)
LoadFailedWithoutRollback ==
  LET name == lastOp'.name
      before == store[name].models
      after == store'[name].models
      elems == ElemsOf(heap', payload')
      ids == [i \in 1..Len(elems) |-> ElemId(heap', elems[i])]
      k == lastOp'.done + 1
      applied == {ids[i] : i \in 1..(k - 1)}
  IN /\ k <= Len(elems)
     /\ {IdOf(heap', a) : a \in Range(after)}
          = {IdOf(heap, a) : a \in Range(before)} \cup applied
     /\ \A i \in 1..(k - 1) :
          (\A j \in (i + 1)..(k - 1) : ids[j] # ids[i]) =>
            \A key \in Keys :
              heap'[elems[i].n].props[key] # Absent =>
                DeepVal(heap', heap'[WithId(heap', after, ids[i])].props[key])
                  = DeepVal(heap', heap'[elems[i].n].props[key])
     /\ \A a \in Range(before) :
          IdOf(heap, a) \notin applied =>
            DeepVal(heap', Ref(WithId(heap', after, IdOf(heap, a)))) = DeepVal(heap, Ref(a))
     /\ \A i \in k..Len(elems) : ~(elems[i].t = "ref" /\ elems[i].n \in Range(after))

C8_NoRollback ==
  [][(lastOp'.op = "load" /\ lastOp'.err \in {"TypeMismatch", "UndefinedValue"})
       => LoadFailedWithoutRollback]_vars

\* the first record was inserted next to the stored one, the second one has
\* no id and failed
C8_Witness ==
  /\ lastOp.op = "load" /\ lastOp.err = "UndefinedValue" /\ lastOp.done = 1
  /\ Len(PayloadElems) = 2
  /\ PayloadIds = <<Num(2), Undef>>
  /\ IdsOf(heap, store["a"].models) = <<Num(1), Num(2)>>

\* the other failure: the first record was merged into the stored one, the
\* second one has an id of another type and failed
C8_TypeMismatchAfterMerge ==
  /\ lastOp.op = "load" /\ lastOp.err = "TypeMismatch" /\ lastOp.done = 1
  /\ Len(PayloadElems) = 2
  /\ Len(store["a"].models) = 1
  /\ Get(heap, PayloadElems[1], "title") = TitleY
  /\ Get(heap, Ref(store["a"].models[1]), "title") = TitleY

(***************************************************************************)
(* C10: on a sequence sorted ascending by key and a defined value of the   *)
(* keys' type, _getInsertIndex returns the rightmost insertion position i: *)
(* 0 <= i <= |S|, every key before i is <= value, every key from i on is   *)
(* > value.                                                                *)
(***************************************************************************)
KeyOfArg(v) == CHOOSE k \in Keys : KeyName(k) = v

C10_RightmostInsertIndex ==
  (lastOp.op = "_getInsertIndex" /\ lastOp.args[1] # Undef)
    => LET S == store["a"].models
           value == lastOp.args[1]
           key == KeyOfArg(lastOp.args[2])
           i == lastOp.done
       IN (S = <<>> \/ TypeOf(Get(heap, Ref(S[1]), key)) = TypeOf(value))
            => /\ lastOp.err = "none"
               /\ 0 <= i /\ i <= Len(S)
               /\ \A j \in 1..i : ~Less(heap, value, Get(heap, Ref(S[j]), key))
               /\ \A j \in (i + 1)..Len(S) : Less(heap, value, Get(heap, Ref(S[j]), key))

\* the value equals two neighbouring keys in the middle of the sequence
C10_Witness ==
  /\ lastOp.op = "_getInsertIndex" /\ lastOp.err = "none"
  /\ Len(store["a"].models) = 4 /\ lastOp.done = 3
  /\ Get(heap, Ref(2), KeyOfArg(lastOp.args[2])) = lastOp.args[1]
  /\ Get(heap, Ref(3), KeyOfArg(lastOp.args[2])) = lastOp.args[1]

(***************************************************************************)
(* C11: on a sequence sorted ascending by key and a defined value of the   *)
(* keys' type, _binarySearchIndex returns an index whose element has       *)
(* key === value when such an element exists and not-found exactly when    *)
(* none exists; _binarySearch returns that element, or undefined.          *)
(***************************************************************************)
KeysOf(key) == [i \in 1..Len(store["a"].models) |-> Get(heap, Ref(store["a"].models[i]), key)]

StrictlyAscendingKeys(keys) == \A i \in 1..(Len(keys) - 1) : Less(heap, keys[i], keys[i + 1])

CallOfKeyType ==
  /\ lastOp.args[1] # Undef
  /\ store["a"].models # <<>>
  /\ TypeOf(KeysOf(KeyOfArg(lastOp.args[2]))[1]) = TypeOf(lastOp.args[1])

C11_BinarySearchFinds ==
  LET value == lastOp.args[1]
      keys == KeysOf(KeyOfArg(lastOp.args[2]))
      present == \E i \in 1..Len(keys) : keys[i] = value
  IN /\ (lastOp.op = "_binarySearchIndex" /\ CallOfKeyType) =>
          /\ lastOp.err = "none"
          /\ IF present
             THEN lastOp.done \in 0..(Len(keys) - 1) /\ keys[lastOp.done + 1] = value
             ELSE lastOp.done = -1
     /\ (lastOp.op = "_binarySearch" /\ CallOfKeyType) =>
          /\ lastOp.err = "none"
          /\ IF present
             THEN /\ Len(lastOp.ret) = 1
                  /\ InSeq(store["a"].models, lastOp.ret[1])
                  /\ Get(heap, Ref(lastOp.ret[1]), KeyOfArg(lastOp.args[2])) = value
             ELSE lastOp.ret = <<>>

C11_Witness ==
  /\ lastOp.op = "_binarySearchIndex"
  /\ CallOfKeyType
  /\ StrictlyAscendingKeys(KeysOf(KeyOfArg(lastOp.args[2])))
  /\ Len(store["a"].models) = 3
  /\ lastOp.done = 1

(***************************************************************************)
(* C12: the lookup and the insertion index treat bad input differently.    *)
(* With a key of another type than the value's in a non-empty sequence the *)
(* lookup reports not-found and the insertion index fails; on an empty     *)
(* sequence the lookup reports not-found and the insertion index is 0 for  *)
(* every defined value; with an undefined value both fail.                 *)
(***************************************************************************)
C12_LookupLenientInsertStrict ==
  LET value == lastOp.args[1]
      keys == KeysOf(KeyOfArg(lastOp.args[2]))
      lookup == lastOp.op \in {"_binarySearchIndex", "_binarySearch"}
      insert == lastOp.op = "_getInsertIndex"
      notFound == lastOp.err = "none" /\ lastOp.ret = <<>>
                    /\ (lastOp.op = "_binarySearchIndex" => lastOp.done < 0)
  IN (lookup \/ insert) =>
       IF value = Undef
       THEN lastOp.err = "UndefinedValue"
       ELSE IF keys = <<>>
       THEN IF lookup THEN notFound ELSE lastOp.err = "none" /\ lastOp.done = 0
       ELSE (TypeOf(keys[1]) # TypeOf(value)) =>
              IF lookup THEN notFound ELSE lastOp.err = "TypeMismatch"

C12_Witness ==
  /\ lastOp.op = "_binarySearchIndex"
  /\ Len(store["a"].models) > 1
  /\ TypeOf(KeysOf(KeyOfArg(lastOp.args[2]))[1]) = "number"
  /\ TypeOf(lastOp.args[1]) = "string"
  /\ lastOp.err = "none"
  /\ lastOp.done = -2

(***************************************************************************)
(* C13 (as claimed): after a load that returned, every field of a stored   *)
(* record whose value in the incoming record is a number, a string or null *)
(* holds exactly that value.                                               *)
(* Fails for null: typeof null is 'object', so deepCopy answers a new      *)
(* empty object.                                                           *)
(***************************************************************************)
IsScalar(v) == v.t \in {"number", "string", "null"}

ScalarsKept(hNew, new, incoming) ==
  \A k \in Keys :
    IsScalar(hNew[incoming].props[k]) => hNew[new].props[k] = hNew[incoming].props[k]

C13_DeepCopyKeepsScalars ==
  [][(lastOp'.op = "load" /\ lastOp'.err = "none" /\ store[lastOp'.name].defined)
       => LET after == store'[lastOp'.name].models
              elems == ElemsOf(heap', payload')
              ids == [i \in 1..Len(elems) |-> ElemId(heap', elems[i])]
          IN DistinctIds(ids) =>
               \A i \in 1..Len(elems) :
                 ScalarsKept(heap', WithId(heap', after, ids[i]), elems[i].n)]_vars

(***************************************************************************)
(* C14: removeWhere(name, key, val) with a value returns the records of    *)
(* the collection with record[key] === val, in collection order, and       *)
(* leaves the others in their order; none of them has record[key] === val. *)
(***************************************************************************)
RECURSIVE IdsWhere(_, _, _, _, _)
IdsWhere(h, addrs, key, val, wanted) ==
  IF addrs = <<>> THEN <<>>
  ELSE IF (GetByValue(h, Ref(Head(addrs)), key) = val) = wanted
  THEN <<IdOf(h, Head(addrs))>> \o IdsWhere(h, Tail(addrs), key, val, wanted)
  ELSE IdsWhere(h, Tail(addrs), key, val, wanted)

C14_RemoveWhereRemovesMatches ==
  [][(lastOp'.op = "removeWhere" /\ store[lastOp'.name].defined
        /\ lastOp'.args[2] # Undef)
       => LET name == lastOp'.name
              key == lastOp'.args[1]
              val == lastOp'.args[2]
          IN /\ lastOp'.err = "none"
             /\ IdsOf(heap', lastOp'.ret) = IdsWhere(heap, store[name].models, key, val, TRUE)
             /\ IdsOf(heap', store'[name].models)
                  = IdsWhere(heap, store[name].models, key, val, FALSE)
             /\ \A i \in 1..Len(store'[name].models) :
                  GetByValue(heap', Ref(store'[name].models[i]), key) # val
             /\ \A i \in 1..Len(lastOp'.ret) :
                  GetByValue(heap', Ref(lastOp'.ret[i]), key) = val]_vars

\* two records that are not neighbours were removed, one between them stays
C14_Witness ==
  /\ lastOp.op = "removeWhere" /\ lastOp.err = "none"
  /\ lastOp.args = <<KeyName("title"), TitleX>>
  /\ IdsOf(heap, lastOp.ret) = <<Num(1), Num(3)>>
  /\ IdsOf(heap, store["a"].models) = <<Num(2)>>

(***************************************************************************)
(* C15: removeWhere(name, value) searches the id: it removes and returns   *)
(* the record with that id when there is one, and otherwise removes        *)
(* nothing and returns an empty sequence.                                  *)
(***************************************************************************)
C15_RemoveWhereValueOnly ==
  [][(lastOp'.op = "removeWhere" /\ store[lastOp'.name].defined
        /\ lastOp'.args[1] # Undef /\ lastOp'.args[2] = Undef)
       => LET name == lastOp'.name
              value == lastOp'.args[1]
              before == IdsOf(heap, store[name].models)
              isNot(v) == v # value
          IN /\ lastOp'.err = "none"
             /\ IdsOf(heap', lastOp'.ret)
                  = (IF value \in Range(before) THEN <<value>> ELSE <<>>)
             /\ IdsOf(heap', store'[name].models) = SelectSeq(before, isNot)]_vars

C15_Witness ==
  /\ lastOp.op = "removeWhere" /\ lastOp.err = "none"
  /\ lastOp.args = <<Num(2), Undef>>
  /\ IdsOf(heap, lastOp.ret) = <<Num(2)>>
  /\ IdsOf(heap, store["a"].models) = <<Num(1), Num(3)>>

(***************************************************************************)
(* C16: removeWhere(name) without key and value fails and removes nothing. *)
(***************************************************************************)
C16_AmbiguousRemoval ==
  [][(lastOp'.op = "removeWhere" /\ lastOp'.args = <<Undef, Undef>>)
       => /\ lastOp'.err = "AmbiguousRemoval"
          /\ StoreImage(heap', store') = StoreImage(heap, store)
          /\ factories' = factories]_vars

C16_Witness ==
  /\ lastOp.op = "removeWhere" /\ lastOp.args = <<Undef, Undef>>
  /\ lastOp.err = "AmbiguousRemoval"
  /\ Len(store["a"].models) >= 2

(***************************************************************************)
(* C17: load, all, find, sortBy, removeModels, removeWhere and addFactory  *)
(* called with a name that was never added fail, and leave the collections *)
(* and the factories as they were.                                         *)
(***************************************************************************)
NamedOps == {"load", "all", "find", "sortBy", "removeModels", "removeWhere", "addFactory"}

C17_UnknownCollectionFails ==
  [][(lastOp'.op \in NamedOps /\ ~store[lastOp'.name].defined)
       => /\ lastOp'.err # "none"
          /\ StoreImage(heap', store') = StoreImage(heap, store)
          /\ factories' = factories]_vars

C17_Witness ==
  /\ lastOp.op = "sortBy" /\ lastOp.name = "b" /\ lastOp.err # "none"
  /\ ~store["b"].defined
  /\ Len(store["a"].models) >= 2

(***************************************************************************)
(* C18: load fails and leaves the collections as they were when the        *)
(* payload is neither a keyed structure, a sequence, nor a text that       *)
(* parses to one: a text that is not JSON gives MalformedJSON, a number or *)
(* boolean (given directly or as text) gives InvalidPayload.               *)
(***************************************************************************)
C18_PayloadErrors ==
  [][(lastOp'.op = "load" /\ store[lastOp'.name].defined)
       => LET pl == payload'[1]
              unchanged == StoreImage(heap', store') = StoreImage(heap, store)
          IN /\ pl \in {Str(t) : t \in BadTexts}
                  => lastOp'.err = "MalformedJSON" /\ unchanged
             /\ (pl.t \in {"number", "boolean"} \/ pl \in {Str(t) : t \in ScalarTexts})
                  => lastOp'.err = "InvalidPayload" /\ unchanged
             /\ (pl \in NonTexts \/ pl \in {Str(t) : t \in OtherTexts})
                  => lastOp'.err # "none" /\ unchanged]_vars

\* a text that parses to a number, loaded into a collection that holds records
C18_Witness ==
  /\ lastOp.op = "load" /\ lastOp.err = "InvalidPayload"
  /\ payload = <<Str(Chars(<<"1", "e", "1">>))>>
  /\ Len(store["a"].models) >= 2

(***************************************************************************)
(* C19: with a factory bound, a payload element that is an instance of the *)
(* factory is stored as it is: when its id is new, the object in the       *)
(* collection is the caller's object itself.                               *)
(***************************************************************************)
C19_InstancePassesThrough ==
  [][(lastOp'.op = "load" /\ lastOp'.err = "none" /\ store[lastOp'.name].defined
        /\ factories[lastOp'.name] # "none")
       => LET name == lastOp'.name
              elems == ElemsOf(heap', payload')
          IN \A i \in 1..Len(elems) :
               (/\ heap'[elems[i].n].proto = factories[name]
                /\ ~HasId(heap, store[name].models, IdOf(heap', elems[i].n)))
                 => InSeq(store'[name].models, elems[i].n)]_vars

\* an instance with a nested part went in next to a record already stored
C19_Witness ==
  /\ lastOp.op = "load" /\ lastOp.err = "none"
  /\ factories["a"] = "ShallowData"
  /\ Len(payload) = 1 /\ payload[1].t = "ref"
  /\ heap[payload[1].n].proto = "ShallowData"
  /\ Len(store["a"].models) = 2
  /\ store["a"].models[1] = payload[1].n
  /\ heap[payload[1].n].props["obj"].t = "ref"

(***************************************************************************)
(* C20: with a factory bound, createModelOfType calls the factory's create *)
(* exactly once, with its own arguments as they are (the one call a spy on *)
(* create records has the caller's values and references; nothing is       *)
(* copied: the model shares the nested parts of the arguments) and returns *)
(* what create returns; without a factory create is not called; load sends *)
(* every element that is no instance through it, so the stored record is   *)
(* the factory's product.                                                  *)
(***************************************************************************)
\* what ShallowData.create(...args) produces: property k of the last argument owning k
RECURSIVE LastOwning(_, _, _, _)
LastOwning(h, args, k, i) ==
  IF i = 0 THEN Absent
  ELSE IF h[args[i].n].props[k] # Absent THEN h[args[i].n].props[k]
  ELSE LastOwning(h, args, k, i - 1)

ProducedByFactory(h, model, factory, args) ==
  /\ h[model].proto = factory
  /\ \A i \in 1..Len(args) : args[i].n # model
  /\ \A k \in Keys : h[model].props[k] = LastOwning(h, args, k, Len(args))

C20_FactoryGetsArgumentsUnchanged ==
  [][/\ (lastOp'.op = "createModelOfType" /\ factories[lastOp'.name] # "none")
          => /\ lastOp'.err = "none"
             /\ lastOp'.args = <<payload'>>
             /\ ProducedByFactory(heap', lastOp'.ret[1], factories[lastOp'.name], payload')
     /\ (lastOp'.op = "createModelOfType" /\ factories[lastOp'.name] = "none")
          => lastOp'.args = <<>>
     /\ (lastOp'.op = "load" /\ lastOp'.err = "none" /\ store[lastOp'.name].defined
           /\ factories[lastOp'.name] # "none")
          => LET name == lastOp'.name
                 elems == ElemsOf(heap', payload')
             IN \A i \in 1..Len(elems) :
                  (/\ heap'[elems[i].n].proto # factories[name]
                   /\ ~HasId(heap, store[name].models, IdOf(heap', elems[i].n)))
                    => ProducedByFactory(heap',
                                         WithId(heap', store'[name].models,
                                                IdOf(heap', elems[i].n)),
                                         factories[name], <<elems[i]>>)]_vars

\* two arguments, the model shares the nested array of the second
C20_Witness ==
  /\ lastOp.op = "createModelOfType"
  /\ factories["a"] = "ShallowData"
  /\ Len(payload) = 2
  /\ lastOp.args = <<payload>>
  /\ heap[lastOp.ret[1]].proto = "ShallowData"
  /\ heap[lastOp.ret[1]].props["obj"].t = "ref"
  /\ heap[lastOp.ret[1]].props["obj"] = heap[payload[2].n].props["obj"]
  /\ heap[lastOp.ret[1]].props["title"] = TitleX

(***************************************************************************)
(* C21: with no factory bound, createModelOfType(name, ...args) returns a  *)
(* new plain record whose fields are the field-wise merge, in argument     *)
(* order with the later argument winning, of deep copies of exactly the    *)
(* arguments that are keyed structures; strings, numbers and sequences     *)
(* contribute nothing.                                                     *)
(***************************************************************************)
IsStructure(h, v) == v.t = "ref" /\ h[v.n].kind = "object"

Structures(h, args) == SelectSeq(args, LAMBDA v : IsStructure(h, v))

\* the objects reachable from the fields of an object
Below(h, a) == Range(Visit(h, Children(h, a), <<>>))

MergedCopies(h, model, args) ==
  LET structs == Structures(h, args)
  IN /\ h[model].kind = "object"
     /\ h[model].proto = "Object"
     /\ \A i \in 1..Len(args) : args[i] # Ref(model)
     /\ \A k \in Keys :
          DeepVal(h, h[model].props[k])
            = DeepVal(h, LastOwning(h, structs, k, Len(structs)))
     /\ \A i \in 1..Len(structs) :
          ({model} \cup Below(h, model)) \cap ({structs[i].n} \cup Below(h, structs[i].n)) = {}

C21_PlainMergeOfCopies ==
  (lastOp.op = "createModelOfType" /\ factories[lastOp.name] = "none")
    => MergedCopies(heap, lastOp.ret[1], payload)

(***************************************************************************)
(* C22: createModelOfType never changes the store or the factory bindings, *)
(* and with no factory bound it does not fail, even for a name that was    *)
(* never added.                                                            *)
(***************************************************************************)
C22_CreateLeavesStoreAlone ==
  [][lastOp'.op = "createModelOfType"
       => /\ StoreImage(heap', store') = StoreImage(heap, store)
          /\ \A n \in Names : store'[n].defined = store[n].defined
          /\ factories' = factories
          /\ (factories[lastOp'.name] = "none" => lastOp'.err = "none")]_vars

\* a model was made for a name that has no collection, next to a stored record
C22_Witness ==
  /\ lastOp.op = "createModelOfType"
  /\ lastOp.name = "b"
  /\ ~store["b"].defined
  /\ Len(store["a"].models) = 1
  /\ Len(payload) = 2
  /\ heap[lastOp.ret[1]].props["title"] = TitleY

(***************************************************************************)
(* C23: addFactory(name, factory) fails when the collection does not       *)
(* exist, when a factory is already bound to the name, or when the factory *)
(* has no callable create; a failing call leaves the bindings exactly as   *)
(* they were, and a binding is only ever made for a name that has none.    *)
(***************************************************************************)
C23_AddFactoryFailures ==
  [][lastOp'.op = "addFactory"
       => LET name == lastOp'.name
              factory == lastOp'.args[1]
          IN /\ (\/ ~store[name].defined
                 \/ factories[name] # "none"
                 \/ ~HasCreate(factory)) => lastOp'.err # "none"
             /\ lastOp'.err # "none" => factories' = factories
             /\ lastOp'.err = "none"
                  => /\ factories[name] = "none"
                     /\ factories' = [factories EXCEPT ![name] = factory]
             /\ StoreImage(heap', store') = StoreImage(heap, store)]_vars

\* a second registration of a valid factory failed and the binding stayed
C23_Witness ==
  /\ lastOp.op = "addFactory"
  /\ lastOp.args = <<"ShallowData">>
  /\ lastOp.err = "InvalidFactory"
  /\ factories["a"] = "ShallowData"
  /\ Len(store["a"].models) = 1

(***************************************************************************)
(* C24: for an existing collection with no bound factory, addFactory with  *)
(* a function or an object that has a callable create succeeds and binds   *)
(* the factory to the name.                                                *)
(***************************************************************************)
C24_AcceptsFunctionOrObject ==
  [][(/\ lastOp'.op = "addFactory"
      /\ store[lastOp'.name].defined
      /\ factories[lastOp'.name] = "none"
      /\ HasCreate(lastOp'.args[1]))
       => /\ lastOp'.err = "none"
          /\ factories'[lastOp'.name] = lastOp'.args[1]]_vars

(***************************************************************************)
(* C25: clear empties every collection but keeps every collection name and *)
(* every factory binding; clearFactories and removeFactory remove bindings *)
(* but leave the records of every collection unchanged.                    *)
(***************************************************************************)
SameNames == \A n \in Names : store'[n].defined = store[n].defined

SameRecords ==
  /\ StoreImage(heap', store') = StoreImage(heap, store)
  /\ \A n \in Names : \A i \in 1..Len(store[n].models) :
       heap'[store'[n].models[i]].proto = heap[store[n].models[i]].proto

C25_IndependentLifecycles ==
  [][/\ lastOp'.op = "clear"
          => /\ SameNames
             /\ \A n \in Names : store'[n].models = <<>>
             /\ factories' = factories
     /\ lastOp'.op = "clearFactories"
          => /\ SameNames /\ SameRecords
             /\ factories' = [n \in Names |-> "none"]
     /\ lastOp'.op = "removeFactory"
          => /\ SameNames /\ SameRecords
             /\ factories' = [factories EXCEPT ![lastOp'.name] = "none"]]_vars

\* after a clear both collections exist and are empty, one still has its factory
C25_Witness ==
  /\ lastOp.op = "clear"
  /\ store["a"].defined /\ store["b"].defined
  /\ store["a"].models = <<>> /\ store["b"].models = <<>>
  /\ factories["a"] = "ShallowData"
  /\ factories["b"] = "none"

(***************************************************************************)
(* C26: add(name) creates an empty collection when the name is new; when a *)
(* collection of that name exists it fails, the collection keeps all its   *)
(* records, and no other collection or binding changes.                    *)
(***************************************************************************)
C26_AddOnceOnly ==
  [][lastOp'.op = "add"
       => LET name == lastOp'.name
          IN /\ factories' = factories
             /\ \A n \in Names \ {name} : store'[n].defined = store[n].defined
             /\ IF store[name].defined
                THEN /\ lastOp'.err # "none"
                     /\ SameNames /\ SameRecords
                ELSE /\ lastOp'.err = "none"
                     /\ store'[name] = [defined |-> TRUE, models |-> <<>>]
                     /\ StoreImage(heap', store') = StoreImage(heap, store)]_vars

\* a second add of a collection that holds records failed
C26_Witness ==
  /\ lastOp.op = "add"
  /\ lastOp.name = "b"
  /\ lastOp.err = "DuplicateCollection"
  /\ Len(store["b"].models) = 2
  /\ Len(store["a"].models) = 1
  /\ factories["a"] = "ShallowData"

(***************************************************************************)
(* C27: all(name) without key and value returns a new sequence holding all *)
(* the records of the collection in id order; pushing to, popping from or  *)
(* reversing the returned sequence never changes the collection, and all   *)
(* itself never changes the collection.                                    *)
(***************************************************************************)
C27_AllReturnsNewSequence ==
  [][/\ (lastOp'.op = "all" /\ lastOp'.args = <<Undef, Undef>>
           /\ store[lastOp'.name].defined)
          => /\ lastOp'.err = "none"
             /\ lastOp'.ret = store'[lastOp'.name].models
             /\ StrictlyAscending(heap', lastOp'.ret)
             /\ lastOp'.done = 0
     /\ lastOp'.op \in {"all", "mutateResult"}
          => /\ SameNames /\ SameRecords
             /\ factories' = factories]_vars

\* the caller pushed onto the sequence of both records; the collection has two
C27_Witness ==
  /\ lastOp.op = "mutateResult"
  /\ lastOp.args = <<"push">>
  /\ Len(lastOp.ret) = 3
  /\ Len(store["a"].models) = 2
  /\ SubSeq(lastOp.ret, 1, 2) = store["a"].models
  /\ Get(heap, Ref(store["a"].models[1]), "title") = TitleY
  /\ Get(heap, Ref(store["a"].models[2]), "title") = TitleX

(***************************************************************************)
(* C28: all(name, key, val) with both key and value given returns exactly  *)
(* the records with record[key] === val, in collection order, and returns  *)
(* an empty sequence without failing when no record matches or no record   *)
(* has that key.                                                           *)
(***************************************************************************)
C28_AllByKeyAndValue ==
  (/\ lastOp.op = "all"
   /\ store[lastOp.name].defined
   /\ lastOp.args[1] # Undef /\ lastOp.args[2] # Undef)
    => /\ lastOp.err = "none"
       /\ lastOp.ret = SelectSeq(store[lastOp.name].models,
                                 LAMBDA a : GetByValue(heap, Ref(a), lastOp.args[1])
                                              = lastOp.args[2])

\* the first and the third of three records have the title asked for
C28_Witness ==
  /\ lastOp.op = "all"
  /\ lastOp.args = <<KeyName("title"), TitleX>>
  /\ Len(store["a"].models) = 3
  /\ lastOp.ret = <<store["a"].models[1], store["a"].models[3]>>

(***************************************************************************)
(* C29: all(name, x) with a single search argument treats x as an id: it   *)
(* returns the one record whose id === x in a one-element sequence, and an *)
(* empty sequence when there is none, also when x has another type than    *)
(* the ids of the collection; it does not fail.                            *)
(***************************************************************************)
C29_AllById ==
  (/\ lastOp.op = "all"
   /\ store[lastOp.name].defined
   /\ lastOp.args[1] # Undef /\ lastOp.args[2] = Undef)
    => /\ lastOp.err = "none"
       /\ Len(lastOp.ret) <= 1
       /\ lastOp.ret = SelectSeq(store[lastOp.name].models,
                                 LAMBDA a : IdOf(heap, a) = lastOp.args[1])

\* the second of three records is returned for its id
C29_Witness ==
  /\ lastOp.op = "all"
  /\ lastOp.args = <<Num(2), Undef>>
  /\ Len(store["a"].models) = 3
  /\ lastOp.ret = <<store["a"].models[2]>>

(***************************************************************************)
(* C30: for every combination of key and value, each possibly left out,    *)
(* find(name, key, val) returns the first element of all(name, key, val),  *)
(* or undefined when all returns an empty sequence.                        *)
(***************************************************************************)
C30_FindIsFirstOfAll ==
  (lastOp.op = "find" /\ Len(lastOp.args) = 2)
    => LET a == all(heap, store, lastOp.name, lastOp.args[1], lastOp.args[2])
       IN /\ lastOp.err = a.err
          /\ lastOp.ret = IF a.ret = <<>> THEN <<>> ELSE <<a.ret[1]>>

(***************************************************************************)
(* C31 (as claimed): sortBy(name, key) returns a new sequence that is a    *)
(* permutation of the records of the collection in ascending order of key  *)
(* (numeric for numbers, lexicographic for strings), whatever the keys,    *)
(* and leaves the collection as it was, in id order; with key omitted or   *)
(* 'id' the result is the collection in its order, as all(name) returns    *)
(* it.                                                                     *)
(***************************************************************************)
IsPermutation(xs, ys) ==
  /\ Len(xs) = Len(ys)
  /\ \A x \in Range(xs) \cup Range(ys) :
       Cardinality({i \in 1..Len(xs) : xs[i] = x})
         = Cardinality({i \in 1..Len(ys) : ys[i] = x})

\* no record comes after one with a greater key
AscendingBy(h, addrs, key) ==
  \A i, j \in 1..Len(addrs) :
    i < j => ~Less(h, Get(h, Ref(addrs[j]), key), Get(h, Ref(addrs[i]), key))

\* every record holds the key, and the keys are all numbers or all strings
KeysOfOneType(h, addrs, key) ==
  \/ \A i \in 1..Len(addrs) : Get(h, Ref(addrs[i]), key).t = "number"
  \/ \A i \in 1..Len(addrs) : Get(h, Ref(addrs[i]), key).t = "string"

\* a step of sortBy, and of a change of its result, as the claim has it;
\* `always`: ascending whatever the keys, or only for keys of one type
SortByStep(always) ==
  /\ (lastOp'.op = "sortBy" /\ store[lastOp'.name].defined)
       => LET name == lastOp'.name
              key == IF lastOp'.args[1] = "" THEN "id" ELSE lastOp'.args[1]
          IN /\ lastOp'.err = "none"
             /\ lastOp'.done = 0
             /\ IsPermutation(lastOp'.ret, store'[name].models)
             /\ (always \/ KeysOfOneType(heap', store'[name].models, key))
                  => AscendingBy(heap', lastOp'.ret, key)
             /\ key = "id"
                  => lastOp'.ret = all(heap', store', name, Undef, Undef).ret
             /\ StrictlyAscending(heap', store'[name].models)
  /\ lastOp'.op = "sortBy" => SameNames /\ SameRecords
  /\ (lastOp'.op = "mutateResult" /\ lastOp.op = "sortBy")
       => SameNames /\ SameRecords

C31_SortByOrdersACopy == [][SortByStep(TRUE)]_vars

(***************************************************************************)
(* C31 (amended): sortBy(name, key) returns a new sequence that is a       *)
(* permutation of the records of the collection and leaves the collection  *)
(* as it was, in id order; the sequence is in ascending order of key       *)
(* (numeric for numbers, lexicographic for strings) when every record      *)
(* holds the key and the keys are all numbers or all strings; with key     *)
(* omitted or 'id' the result is the collection in its order, as all(name) *)
(* returns it.                                                             *)
(***************************************************************************)
C31_OrdersKeysOfOneType == [][SortByStep(FALSE)]_vars

\* three records sorted by their numeric title come out in another order,
\* 2 before 10
C31_Witness ==
  /\ lastOp.op = "sortBy"
  /\ lastOp.name = "a"
  /\ lastOp.args = <<"title">>
  /\ Len(store["a"].models) = 3
  /\ lastOp.ret = <<store["a"].models[2], store["a"].models[1], store["a"].models[3]>>
  /\ Get(heap, Ref(store["a"].models[2]), "title") = Num(2)
  /\ Get(heap, Ref(store["a"].models[1]), "title") = Num(10)
  /\ Get(heap, Ref(store["a"].models[3]), "title") = Num(10)

(***************************************************************************)
(* C32 (as claimed): on a collection whose ids are strings, all(name,      *)
(* 'id') returns the records of the collection in ascending lexicographic  *)
(* id order.                                                               *)
(***************************************************************************)
StringIds(h, addrs) ==
  /\ addrs # <<>>
  /\ \A i \in 1..Len(addrs) : IdOf(h, addrs[i]).t = "string"

LexicographicById(h, addrs) ==
  \A i \in 1..(Len(addrs) - 1) :
    StrLess(IdOf(h, addrs[i]).s, IdOf(h, addrs[i + 1]).s)

C32_AllWithIdKeyReturnsAll ==
  (/\ lastOp.op = "all"
   /\ lastOp.args = <<KeyName("id"), Undef>>
   /\ StringIds(heap, store[lastOp.name].models))
    => /\ lastOp.err = "none"
       /\ lastOp.ret = store[lastOp.name].models
       /\ LexicographicById(heap, lastOp.ret)

(***************************************************************************)
(* C32 (amended): on a collection whose ids are strings, all(name) returns *)
(* the records of the collection in ascending lexicographic id order;      *)
(* all(name, 'id') looks for the id 'id' and returns the record with that  *)
(* id, or an empty sequence when there is none.                            *)
(***************************************************************************)
C32_AllOnStringIds ==
  (/\ lastOp.op = "all"
   /\ StringIds(heap, store[lastOp.name].models))
    => /\ lastOp.args = <<Undef, Undef>>
            => /\ lastOp.err = "none"
               /\ lastOp.ret = store[lastOp.name].models
               /\ LexicographicById(heap, lastOp.ret)
       /\ lastOp.args = <<KeyName("id"), Undef>>
            => /\ lastOp.err = "none"
               /\ lastOp.ret = SelectSeq(store[lastOp.name].models,
                                         LAMBDA a : IdOf(heap, a) = KeyName("id"))

\* all('b', 'id') on the records "a", "ab", "b" returned nothing
C32_Witness ==
  /\ lastOp.op = "all"
  /\ lastOp.name = "b"
  /\ lastOp.args = <<KeyName("id"), Undef>>
  /\ IdsOf(heap, store["b"].models) = <<Str(<<1>>), Str(<<1, 2>>), Str(<<2>>)>>
  /\ lastOp.ret = <<>>

(***************************************************************************)
(* C33: for every record or sequence of records v and every collection     *)
(* state, load(name, JSON text of v) leaves the collection in the same     *)
(* state as load(name, v), and fails when and as load(name, v) fails.      *)
(***************************************************************************)
\* the value v of heap hsrc built anew in heap h
RECURSIVE Graft(_, _, _), GraftElems(_, _, _, _, _), GraftProps(_, _, _, _, _)
Graft(h, hsrc, v) ==
  IF v.t # "ref" THEN [h |-> h, v |-> v]
  ELSE LET h1 == Append(h, [hsrc[v.n] EXCEPT !.elems = <<>>,
                                             !.props = [k \in Keys |-> Absent]])
       IN [h |-> GraftProps(GraftElems(h1, hsrc, v.n, Len(h1), 1), hsrc, v.n, Len(h1), 1),
           v |-> Ref(Len(h1))]

GraftElems(h, hsrc, src, dst, i) ==
  IF Len(h) < dst \/ i > Len(hsrc[src].elems) THEN h
  ELSE LET g == Graft(h, hsrc, hsrc[src].elems[i])
       IN GraftElems([g.h EXCEPT ![dst].elems = Append(@, g.v)], hsrc, src, dst, i + 1)

GraftProps(h, hsrc, src, dst, i) ==
  IF Len(h) < dst \/ i > Len(KeySeq) THEN h
  ELSE IF hsrc[src].props[KeySeq[i]].t # "ref"
  THEN GraftProps([h EXCEPT ![dst].props[KeySeq[i]] = hsrc[src].props[KeySeq[i]]],
                  hsrc, src, dst, i + 1)
  ELSE LET g == Graft(h, hsrc, hsrc[src].props[KeySeq[i]])
       IN GraftProps([g.h EXCEPT ![dst].props[KeySeq[i]] = g.v], hsrc, src, dst, i + 1)

\* the prototypes of the records of every collection, in order
StoreProtos(h, st) ==
  [n \in Names |-> [i \in 1..Len(st[n].models) |-> h[st[n].models[i]].proto]]

\* the outcome e of a load against the outcome a step left behind
SameOutcome(e, h, st, op) ==
  /\ op.err = e.err
  /\ op.done = e.done
  /\ StoreImage(h, st) = StoreImage(e.h, e.store)
  /\ StoreProtos(h, st) = StoreProtos(e.h, e.store)

\* load(name, v) for the grafted value g
loadGrafted(g, st, fac, name) == load(g.h, st, fac, name, g.v)

C33_TextLoadsAsValue ==
  [][(lastOp'.op = "load" /\ Len(lastOp'.args) = 1 /\ store[lastOp'.name].defined)
       => SameOutcome(loadGrafted(Graft(heap, heap', payload'[1]),
                                  store, factories, lastOp'.name),
                      heap', store', lastOp')]_vars

\* the text of two records with one id was merged into the record stored
C33_Witness ==
  /\ lastOp.op = "load" /\ lastOp.err = "none" /\ lastOp.done = 2
  /\ Len(lastOp.args) = 1
  /\ Len(PayloadElems) = 2
  /\ PayloadIds = <<Num(1), Num(1)>>
  /\ Len(store["a"].models) = 2
  /\ Get(heap, Ref(store["a"].models[1]), "title") = TitleX
  /\ Get(heap, Get(heap, Ref(store["a"].models[1]), "obj"), "a") = Num(1)

\* a record whose id and title hold digits and punctuation, loaded from its
\* text
C33_StringIdFromText ==
  /\ lastOp.op = "load" /\ lastOp.err = "none" /\ lastOp.done = 1
  /\ Len(lastOp.args) = 1
  /\ IdsOf(heap, store["a"].models) = <<Str(Chars(<<"a", "1">>))>>
  /\ Get(heap, Ref(store["a"].models[1]), "title") = Str(Chars(<<"x", ",", "1", "]">>))

(***************************************************************************)
(* C34: every operation completes.  Each pass of the while loops of        *)
(* _getInsertIndex and _binarySearchIndex strictly shrinks the interval    *)
(* beg..end, which never gets narrower than empty, so that the loop makes  *)
(* no more passes than the array has elements and returns what the whole   *)
(* function returns; load maps and pushes one payload element per pass,    *)
(* removeModels and removeWhere handle one model per pass, and all of them *)
(* finish when every input record was processed once.  A call inside a     *)
(* loop always gets out of it.                                             *)
(***************************************************************************)
Whiles == {"_getInsertIndex.while", "_binarySearchIndex.while"}
Width(op) == op.ret[2] - op.ret[1]

WhilePasses ==
  lastOp.op \in Whiles =>
    /\ lastOp'.op = lastOp.op =>
         /\ Width(lastOp') < Width(lastOp)
         /\ Width(lastOp') >= -1
         /\ lastOp'.ret[3] = lastOp.ret[3] + 1
         /\ lastOp'.ret[3] <= Len(store["a"].models)
    /\ lastOp'.op = "_getInsertIndex" =>
         lastOp'.done = GetInsertIndex(heap, store["a"].models, lastOp.args[1], "id").idx
    /\ lastOp'.op = "_binarySearchIndex" =>
         lastOp'.done = BinarySearchIndex(heap, store["a"].models, lastOp.args[1], "id").idx
    /\ lastOp'.op \in Whiles \cup {"_getInsertIndex", "_binarySearchIndex"}

LoadPasses ==
  /\ lastOp.op = "load.map" =>
       /\ Len(lastOp'.ret) = Len(lastOp.ret) + 1
       /\ Len(lastOp'.ret) <= Len(PayloadElems)
       /\ lastOp'.op = (IF Len(lastOp'.ret) = Len(PayloadElems)
                        THEN "load.forEach" ELSE "load.map")
  /\ lastOp.op = "load.forEach" =>
       /\ lastOp'.op \in {"load.forEach", "load"}
       /\ lastOp'.err = "none" => lastOp'.done = lastOp.done + 1
       /\ lastOp'.err # "none" => lastOp'.op = "load" /\ lastOp'.done = lastOp.done
       /\ lastOp'.err = "none" =>
            (lastOp'.op = "load" <=> lastOp'.done = Len(PayloadElems))

RemovePasses ==
  lastOp.op \in {"removeModels.for", "removeWhere.for"} =>
    /\ lastOp'.op \in {lastOp.op, "removeModels", "removeWhere"}
    /\ lastOp'.err = "none" => lastOp'.done = lastOp.done + 1
    /\ lastOp'.err # "none" => lastOp'.op # lastOp.op /\ lastOp'.done = lastOp.done
    /\ lastOp'.err = "none" =>
         (lastOp'.op # lastOp.op <=> lastOp'.done = Len(payload))

C34_EveryOperationCompletes ==
  /\ [][WhilePasses /\ LoadPasses /\ RemovePasses]_vars
  /\ (InLoop ~> ~InLoop)

\* an insert index found with two passes in a collection of MaxId records
C34_Witness ==
  /\ lastOp.op = "_getInsertIndex" /\ lastOp.err = "none"
  /\ Len(lastOp.ret) = 3 /\ lastOp.ret[3] >= 2
  /\ Len(store["a"].models) = MaxId
  /\ lastOp.done = 1

(***************************************************************************)
(* C35: merge is field-wise at the top level only.  When a record is       *)
(* loaded whose id is stored already, and a field of both the stored and   *)
(* the incoming record holds a keyed structure or a sequence, the stored   *)
(* field afterwards equals the incoming value by value (so that inner      *)
(* fields and elements of the old value alone are gone) and shares no      *)
(* object with it.                                                         *)
(***************************************************************************)
IsNested(h, v) == v.t = "ref"

\* the objects a value consists of
Within(h, v) == IF v.t = "ref" THEN Range(Visit(h, <<v>>, <<>>)) ELSE {}

\* field k of the stored record with the id of the incoming record:
\* old its value before the load, new after, inc the incoming value
ReplacedWholesale(old, new, inc, hOld) ==
  (IsNested(hOld, old) /\ IsNested(heap', inc)) =>
    /\ IsNested(heap', new)
    /\ DeepVal(heap', new) = DeepVal(heap', inc)
    /\ Within(heap', new) \cap Within(heap', inc) = {}

C35_NestedReplacedWholesale ==
  [][(/\ lastOp'.op = "load" /\ lastOp'.err = "none"
      /\ Len(store["a"].models) >= 1
      /\ Len(store'["a"].models) = Len(store["a"].models)
      /\ Len(ElemsOf(heap', payload')) = 1)
       => LET inc == ElemsOf(heap', payload')[1]
              i == CHOOSE j \in 1..Len(store["a"].models) :
                     IdOf(heap, store["a"].models[j]) = Get(heap', inc, "id")
          IN \A k \in Keys :
               ReplacedWholesale(Get(heap, Ref(store["a"].models[i]), k),
                                 Get(heap', Ref(store'["a"].models[i]), k),
                                 Get(heap', inc, k), heap)]_vars

\* {title: "x"} was loaded over {a: 1}: a is gone, and the title that the
\* incoming record lacks was kept
C35_Witness ==
  /\ lastOp.op = "load" /\ lastOp.err = "none" /\ lastOp.done = 1
  /\ factories["a"] = "none"
  /\ Len(store["a"].models) = 1
  /\ Get(heap, Ref(store["a"].models[1]), "title") = TitleX
  /\ heap[PayloadElems[1].n].props["title"] = Absent
  /\ IsStructure(heap, Get(heap, Ref(store["a"].models[1]), "obj"))
  /\ Get(heap, Get(heap, Ref(store["a"].models[1]), "obj"), "a") = Undef
  /\ Get(heap, Get(heap, Ref(store["a"].models[1]), "obj"), "title") = TitleX

(***************************************************************************)
(* C36: without a factory, a load of a sequence that succeeds leaves the   *)
(* collection as the two loads of its first k and of its remaining records *)
(* leave it, for every k from 0 to its length, and these loads succeed as  *)
(* well; a load of the empty sequence changes nothing; a load of a single  *)
(* record r leaves the collection as the load of the sequence [r] does.    *)
(***************************************************************************)
\* a new array in heap h of the values elems of heap hsrc
RECURSIVE GraftSeq(_, _, _, _, _)
GraftSeq(h, hsrc, elems, dst, i) ==
  IF Len(h) < dst \/ i > Len(elems) THEN [h |-> h, v |-> Ref(dst)]
  ELSE LET g == Graft(h, hsrc, elems[i])
       IN GraftSeq([g.h EXCEPT ![dst].elems = Append(@, g.v)], hsrc, elems, dst, i + 1)

GraftArray(h, hsrc, elems) == GraftSeq(Append(h, NewArray), hsrc, elems, Len(h) + 1, 1)

\* load(name, elems) after the outcome e of an earlier load
LoadNext(e, elems, name) ==
  IF e.err # "none" THEN e
  ELSE loadGrafted(GraftArray(e.h, heap', elems), e.store, factories, name)

\* the outcome e is the one the step has left
AgreesWith(e) ==
  /\ e.err = "none"
  /\ StoreImage(e.h, e.store) = StoreImage(heap', store')
  /\ StoreProtos(e.h, e.store) = StoreProtos(heap', store')

Untouched == [h |-> heap, store |-> store, err |-> "none", done |-> 0]

BatchesAgree(elems, name) ==
  /\ IsArray(heap', payload'[1]) =>
       \A k \in 0..Len(elems) :
         AgreesWith(LoadNext(LoadNext(Untouched, SubSeq(elems, 1, k), name),
                             SubSeq(elems, k + 1, Len(elems)), name))
  /\ Len(elems) = 0 => AgreesWith(Untouched)
  /\ ~IsArray(heap', payload'[1]) => AgreesWith(LoadNext(Untouched, elems, name))

C36_BatchingDoesNotMatter ==
  [][(/\ lastOp'.op = "load" /\ lastOp'.err = "none"
      /\ factories[lastOp'.name] = "none")
       => BatchesAgree(ElemsOf(heap', payload'), lastOp'.name)]_vars

\* two records with the id of a stored record were loaded as one sequence
C36_Witness ==
  /\ lastOp.op = "load" /\ lastOp.err = "none" /\ lastOp.done = 2
  /\ IsArray(heap, payload[1])
  /\ PayloadIds = <<Num(1), Num(1)>>
  /\ Get(heap, PayloadElems[1], "title") = TitleY
  /\ Get(heap, PayloadElems[2], "title") = TitleX
  /\ Len(store["a"].models) = 2
  /\ Get(heap, Ref(store["a"].models[1]), "title") = TitleX
  /\ IsStructure(heap, Get(heap, Ref(store["a"].models[1]), "obj"))

(***************************************************************************)
(* C37: load order and distinct ids.  A is the payload a step loads, B     *)
(* any payload of at most one record; the ids of A and B are pairwise      *)
(* distinct and none is in the collection.  "A then B" is B loaded after   *)
(* the step, "B then A" is B loaded in place of the step and A after it;   *)
(* a load that throws leaves the caller free to make the next one.         *)
(***************************************************************************)
\* load(name, the payload pd built by the caller) on the outcome e
LoadBuilt(b, st, name) == load(b.h, st, factories, name, b.v)
LoadAfter(e, pd, name) == LoadBuilt(BuildPayload(e.h, pd), e.store, name)

\* load(name, A) on the outcome e, A the payload of the step
LoadStepAfter(e, name) ==
  loadGrafted(GraftArray(e.h, heap', ElemsOf(heap', payload')), e.store, factories, name)

StepLeft == [h |-> heap', store |-> store', err |-> lastOp'.err, done |-> lastOp'.done]

DistinctAndAbsent(pd, name) ==
  LET idsA == [i \in 1..Len(ElemsOf(heap', payload')) |->
                 ElemId(heap', ElemsOf(heap', payload')[i])]
      idsB == [i \in 1..Len(pd.recs) |-> pd.recs[i].id]
      idsC == IdsOf(heap, store[name].models)
  IN /\ Range(idsA) \cap Range(idsB) = {}
     /\ Cardinality(Range(idsA)) = Len(idsA)
     /\ (Range(idsA) \cup Range(idsB)) \cap Range(idsC) = {}

\* ab: A then B; b: B alone; ba: B then A
SameEitherWay(ab, ba) == StoreImage(ab.h, ab.store) = StoreImage(ba.h, ba.store)

SucceedEitherWay(ab, b, ba) ==
  (lastOp'.err = "none" /\ ab.err = "none")
    => (b.err = "none" /\ ba.err = "none" /\ SameEitherWay(ab, ba))

OrderSeconds == ArrayPayloads(OrderedRecs, 1)

OrderStep == lastOp'.op = "load" /\ store[lastOp'.name].defined
               /\ factories[lastOp'.name] = "none"

\* C37 as stated: whichever of A and B is loaded first, the collection
\* ends with the same sequence of records.
C37_LoadOrderDoesNotMatter ==
  [][OrderStep =>
       \A pd \in OrderSeconds :
         DistinctAndAbsent(pd, lastOp'.name) =>
           SameEitherWay(LoadAfter(StepLeft, pd, lastOp'.name),
                         LoadStepAfter(LoadAfter(Untouched, pd, lastOp'.name),
                                       lastOp'.name))]_vars

\* C37 for loads that succeed: when load(name, A) and then load(name, B)
\* succeed, so do load(name, B) and then load(name, A), and the collection
\* ends with the same sequence of records.
C37_OrderOfSuccessfulLoads ==
  [][OrderStep =>
       \A pd \in OrderSeconds :
         DistinctAndAbsent(pd, lastOp'.name) =>
           SucceedEitherWay(LoadAfter(StepLeft, pd, lastOp'.name),
                            LoadAfter(Untouched, pd, lastOp'.name),
                            LoadStepAfter(LoadAfter(Untouched, pd, lastOp'.name),
                                          lastOp'.name))]_vars

\* the records 3 and 1 were loaded, in that order, around the stored 2
C37_Witness ==
  /\ lastOp.op = "load" /\ lastOp.err = "none" /\ lastOp.done = 2
  /\ PayloadIds = <<Num(3), Num(1)>>
  /\ IdsOf(heap, store["a"].models) = <<Num(1), Num(2), Num(3)>>

(***************************************************************************)
(* C38: collections are isolated.  load, removeModels, removeWhere, all,   *)
(* find and sortBy called with one name leave every other collection with  *)
(* the same records, every name defined or not as before and every factory *)
(* binding as it was; a record that a load puts into a collection is built *)
(* by the factory bound to that name, is the instance of that factory the  *)
(* caller passed, or is a plain object when no factory is bound.           *)
(***************************************************************************)
NamedCalls == {"load", "removeModels", "removeWhere", "all", "find", "sortBy"}

\* record i of collection n is an object that collection `name` holds too
SharedWith(name, n, i) == InSeq(store[name].models, store[n].models[i])

SameRecord(n, i) ==
  /\ DeepVal(heap', Ref(store'[n].models[i])) = DeepVal(heap, Ref(store[n].models[i]))
  /\ heap'[store'[n].models[i]].proto = heap[store[n].models[i]].proto

\* every other collection holds the same objects in the same places, and
\* those for which `changing` is false hold the same values
OthersKept(name, changing(_, _)) ==
  \A n \in Names \ {name} :
    /\ store'[n].defined = store[n].defined
    /\ Len(store'[n].models) = Len(store[n].models)
    /\ \A i \in 1..Len(store[n].models) :
         /\ IdOf(heap', store'[n].models[i]) = IdOf(heap, store[n].models[i])
         /\ ~changing(n, i) => SameRecord(n, i)

\* the records the step has put into the collection are of its own factory
BuiltByOwnFactory(name) ==
  \A i \in 1..Len(store'[name].models) :
    ~InSeq(IdsOf(heap, store[name].models), IdOf(heap', store'[name].models[i]))
      => heap'[store'[name].models[i]].proto
           = (IF factories[name] = "none" THEN "Object" ELSE factories[name])

\* C38 as stated: no call changes a record of another collection.
C38_CollectionsIsolated ==
  [][lastOp'.op \in NamedCalls
       => /\ OthersKept(lastOp'.name, LAMBDA n, i : FALSE)
          /\ factories' = factories
          /\ lastOp'.op = "load" => BuiltByOwnFactory(lastOp'.name)]_vars

\* C38 for records that are not shared: a load changes a record of another
\* collection only when that record is an object the loaded collection
\* holds as well (an instance of the factory that the caller loaded into
\* both); the other calls change no record of another collection.
C38_IsolatedUnlessShared ==
  [][lastOp'.op \in NamedCalls
       => /\ OthersKept(lastOp'.name,
                        LAMBDA n, i : lastOp'.op = "load" /\ SharedWith(lastOp'.name, n, i))
          /\ factories' = factories
          /\ lastOp'.op = "load" => BuiltByOwnFactory(lastOp'.name)]_vars

\* an instance of the factory of "a" was loaded into "b": "b" holds a plain
\* copy of it, "a" its own instance
C38_Witness ==
  /\ lastOp.op = "load" /\ lastOp.name = "b" /\ lastOp.err = "none"
  /\ factories["a"] = "ShallowData" /\ factories["b"] = "none"
  /\ heap[PayloadElems[1].n].proto = "ShallowData"
  /\ Len(store["b"].models) = 1
  /\ heap[store["b"].models[1]].proto = "Object"
  /\ Get(heap, Ref(store["b"].models[1]), "title") = TitleY
  /\ Len(store["a"].models) = 2
  /\ heap[store["a"].models[1]].proto = "ShallowData"

(***************************************************************************)
(* C39: _pushModels called with the name of an existing collection inserts *)
(* or merges the payload into that collection exactly as when called with  *)
(* the collection itself: the same records by value in the same order, the *)
(* same number of records applied, and the same error when it fails.       *)
(***************************************************************************)
\* _pushModels(collection, v) for the grafted value g
pushGrafted(g, st, name) == pushModelsOf(g.h, st, name, FALSE, g.v)

C39_NameAsCollection ==
  [][(lastOp'.op = "_pushModels" /\ Len(lastOp'.args) = 1)
       => SameOutcome(pushGrafted(Graft(heap, heap', payload'[1]), store, lastOp'.name),
                      heap', store', lastOp')]_vars

====
